---- MODULE Spec2Model ----
(***************************************************************************)
(* Verification model of the Genshin wiki text-field extraction and        *)
(* chunking engine (src/src/crawler/data_processor_v3.py, with the earlier *)
(* chunker of src/src/crawler/data_processor.py).                          *)
(*                                                                         *)
(* Python strings are TLA+ strings; a character is a string of length 1.   *)
(* Python values that may be None are tagged records (NoneVal, Str, IntVal).  *)
(* Regular expressions are data: a pattern is a tree of nodes and Match    *)
(* computes the matches of a node at a position in the backtracking        *)
(* priority order of Python's re module.                                   *)
(***************************************************************************)
EXTENDS Integers, Sequences, FiniteSets, TLC

\* ------------------------------------------------------------------------
\* Python str helpers
\* ------------------------------------------------------------------------

Char(s, i) == SubSeq(s, i, i)

LowerLetters ==
    {"a","b","c","d","e","f","g","h","i","j","k","l","m",
     "n","o","p","q","r","s","t","u","v","w","x","y","z"}

UpperLetters ==
    {"A","B","C","D","E","F","G","H","I","J","K","L","M",
     "N","O","P","Q","R","S","T","U","V","W","X","Y","Z"}

Digits == {"0","1","2","3","4","5","6","7","8","9"}

\* str.isspace() characters that occur in the modelled inputs
Whitespace == {" ", "\n", "\t"}

\* characters matched by \w
WordChars == LowerLetters \cup UpperLetters \cup Digits \cup {"_"}

LowerOf ==
    [c \in UpperLetters |->
        CASE c = "A" -> "a" [] c = "B" -> "b" [] c = "C" -> "c" [] c = "D" -> "d"
          [] c = "E" -> "e" [] c = "F" -> "f" [] c = "G" -> "g" [] c = "H" -> "h"
          [] c = "I" -> "i" [] c = "J" -> "j" [] c = "K" -> "k" [] c = "L" -> "l"
          [] c = "M" -> "m" [] c = "N" -> "n" [] c = "O" -> "o" [] c = "P" -> "p"
          [] c = "Q" -> "q" [] c = "R" -> "r" [] c = "S" -> "s" [] c = "T" -> "t"
          [] c = "U" -> "u" [] c = "V" -> "v" [] c = "W" -> "w" [] c = "X" -> "x"
          [] c = "Y" -> "y" [] c = "Z" -> "z"]

LowerChar(c) == IF c \in UpperLetters THEN LowerOf[c] ELSE c

RECURSIVE Lower(_)
\* str.lower(), one half of the string after the other
Lower(s) ==
    IF Len(s) <= 1 THEN LowerChar(s)
    ELSE LET h == Len(s) \div 2
         IN  Lower(SubSeq(s, 1, h)) \o Lower(SubSeq(s, h + 1, Len(s)))

\* w in s
Contains(s, w) ==
    \E i \in 1..(Len(s) - Len(w) + 1) : SubSeq(s, i, i + Len(w) - 1) = w

\* s.startswith(w)
StartsWith(s, w) == Len(w) <= Len(s) /\ SubSeq(s, 1, Len(w)) = w

\* str.strip(): from the first to the last non-whitespace character
Strip(s) ==
    LET IsWs(i) == Char(s, i) \in Whitespace
    IN  IF \A i \in 1..Len(s) : IsWs(i) THEN ""
        ELSE SubSeq(s,
                    CHOOSE i \in 1..Len(s) : ~IsWs(i) /\ \A j \in 1..(i - 1) : IsWs(j),
                    CHOOSE i \in 1..Len(s) :
                        ~IsWs(i) /\ \A j \in (i + 1)..Len(s) : IsWs(j))

RECURSIVE ReplaceChar(_, _, _)
\* s.replace(old, new) for a single character old, one half of the string
\* after the other
ReplaceChar(s, old, new) ==
    IF s = "" THEN ""
    ELSE IF Len(s) = 1 THEN (IF s = old THEN new ELSE s)
    ELSE LET h == Len(s) \div 2
         IN  ReplaceChar(SubSeq(s, 1, h), old, new)
             \o ReplaceChar(SubSeq(s, h + 1, Len(s)), old, new)

\* str.split(): the maximal runs of non-whitespace characters, in order
SplitWs(s) ==
    LET IsWs(i) == Char(s, i) \in Whitespace
        EndOf(i) == CHOOSE e \in i..Len(s) :
                        /\ \A j \in i..e : ~IsWs(j)
                        /\ (e = Len(s) \/ IsWs(e + 1))
        Nth(starts, k) ==
            CHOOSE i \in starts : Cardinality({j \in starts : j < i}) = k - 1
        Token(i) == SubSeq(s, i, EndOf(i))
        Tokens(starts) == [k \in 1..Cardinality(starts) |-> Token(Nth(starts, k))]
    IN  Tokens({i \in 1..Len(s) : ~IsWs(i) /\ (i = 1 \/ IsWs(i - 1))})

RECURSIVE Repeat(_, _)
\* s * n
Repeat(s, n) ==
    IF n <= 0 THEN ""
    ELSE IF n = 1 THEN s
    ELSE LET Twice(h) == IF n % 2 = 0 THEN h \o h ELSE h \o h \o s
         IN  Twice(Repeat(s, n \div 2))

RECURSIVE Join(_, _)
\* sep.join(xs)
Join(sep, xs) ==
    IF xs = <<>> THEN ""
    ELSE IF Len(xs) = 1 THEN xs[1]
    ELSE xs[1] \o sep \o Join(sep, Tail(xs))

\* ------------------------------------------------------------------------
\* Python values that can be None
\* ------------------------------------------------------------------------

NoneVal == [t |-> "None"]
Str(s) == [t |-> "str", s |-> s]
IntVal(n) == [t |-> "int", n |-> n]

\* a dict whose insertion order matters, as its items <<key, value>> in order
Dict(items) == [t |-> "dict", items |-> items]

IsStr(v) == v.t = "str"
IsNone(v) == v.t = "None"

\* type(v).__name__
TypeName(v) ==
    CASE v.t = "None" -> "NoneType"
      [] v.t = "str" -> "str"
      [] v.t = "int" -> "int"
      [] v.t = "dict" -> "dict"

\* key in d, for the items of a dict
HasKey(items, key) == \E j \in 1..Len(items) : items[j][1] = key

\* d.get(key, default), for the items of a dict
ItemGet(items, key, default) ==
    IF HasKey(items, key)
    THEN items[CHOOSE j \in 1..Len(items) : items[j][1] = key][2]
    ELSE default

\* d[key] = value: a new key goes last, an old key keeps its place
ItemSet(items, key, value) ==
    IF HasKey(items, key)
    THEN [j \in 1..Len(items) |->
              IF items[j][1] = key THEN <<key, value>> ELSE items[j]]
    ELSE Append(items, <<key, value>>)

\* d.get(key, default), for a record held as a function of its keys
GetOr(d, key, default) == IF key \in DOMAIN d THEN d[key] ELSE default

\* the outcome of a call: a returned value or a raised exception, str(e)
Returned(v) == [t |-> "return", value |-> v]
Raised(msg) == [t |-> "raise", error |-> msg]

\* str(e) of the AttributeError for v.attr
NoAttribute(v, attr) ==
    "'" \o TypeName(v) \o "' object has no attribute '" \o attr \o "'"

\* str(e) of the TypeError for len(v)
NoLen(v) == "object of type '" \o TypeName(v) \o "' has no len()"

\* ------------------------------------------------------------------------
\* Regular expressions (Python re): pattern nodes
\* ------------------------------------------------------------------------

Lit(s) == [k |-> "lit", s |-> s]                      \* literal text
In(cs) == [k |-> "in", cs |-> cs]                     \* [...] or a class escape
NotIn(cs) == [k |-> "notin", cs |-> cs]               \* [^...]
Dot == [k |-> "dot"]                                  \* .
Cat(xs) == [k |-> "cat", xs |-> xs]                   \* concatenation
Alt(xs) == [k |-> "alt", xs |-> xs]                   \* a|b|c
Rep(x, lo, hi, lazy) ==                               \* x{lo,hi}; hi = -1: unbounded
    [k |-> "rep", x |-> x, lo |-> lo, hi |-> hi, lazy |-> lazy]
Grp(n, x) == [k |-> "grp", n |-> n, x |-> x]          \* capturing group n
Behind(cs) == [k |-> "behind", cs |-> cs]             \* (?<=[...])
Bol == [k |-> "bol"]                                  \* ^
WordB == [k |-> "wordb"]                              \* \b

Star(x) == Rep(x, 0, -1, FALSE)
Plus(x) == Rep(x, 1, -1, FALSE)
Opt(x) == Rep(x, 0, 1, FALSE)
LazyStar(x) == Rep(x, 0, -1, TRUE)
LazyPlus(x) == Rep(x, 1, -1, TRUE)

ReD == In(Digits)                                     \* \d
ReW == In(WordChars)                                  \* \w
ReS == In(Whitespace)                                 \* \s
ReLower == In(LowerLetters)                           \* [a-z]
ReUpper == In(UpperLetters)                           \* [A-Z]
ReAlpha == In(LowerLetters \cup UpperLetters)         \* [a-zA-Z]

\* the captures of a match that has entered no group (no pattern of the
\* program has more than three groups)
NoCaps == <<"", "", "">>

\* does character c belong to the set cs (under re.IGNORECASE when ic)
CharIn(c, cs, ic) ==
    \/ c \in cs
    \/ ic /\ \E d \in cs : LowerChar(d) = LowerChar(c)

RECURSIVE Match(_, _, _, _, _)
RECURSIVE MatchCat(_, _, _, _, _, _)
RECURSIVE MatchAlt(_, _, _, _, _, _)
RECURSIVE MatchRep(_, _, _, _, _, _)
RECURSIVE ThenCat(_, _, _, _, _, _, _)
RECURSIVE ThenRep(_, _, _, _, _, _, _, _)

\* is node n a single-character matcher
IsCharNode(n) == n.k \in {"in", "notin", "dot"}

\* does the single-character matcher n accept the character at position j
Accepts(n, s, j, ic) ==
    /\ j <= Len(s)
    /\ CASE n.k = "in" -> CharIn(Char(s, j), n.cs, ic)
         [] n.k = "notin" -> ~CharIn(Char(s, j), n.cs, ic)
         [] n.k = "dot" -> Char(s, j) # "\n"

\* the repetition n of a single-character matcher at position i: the run of
\* accepted characters from i on is cut to n.hi characters, and every length
\* from n.lo up to the length of the run is a match; greedy tries the
\* longest first, lazy the shortest first
MatchRun(n, s, i, c) ==
    LET Ends(first, stop) ==
            [k \in 1..(stop - first + 1) |->
                <<IF n.lazy THEN first + k - 1 ELSE stop - k + 1, c.caps>>]
        Stop(lim, bad) ==
            IF bad = {} THEN lim + 1 ELSE CHOOSE j \in bad : \A b \in bad : j <= b
        Scan(lim) == Stop(lim, {j \in i..lim : ~Accepts(n.x, s, j, c.ic)})
    IN  Ends(i + n.lo,
             Scan(IF n.hi = -1 \/ i + n.hi - 1 > Len(s) THEN Len(s) ELSE i + n.hi - 1))

\* Match(n, s, i, c, ic): the matches of node n in s starting at position i
\* with captures c so far, as a sequence of <<end, captures>> in the order
\* in which the backtracking matcher tries them (end is the position after
\* the match).
Match(n, s, i, c, ic) ==
    CASE n.k = "lit" ->
            LET e == i + Len(n.s)
                t == SubSeq(s, i, e - 1)
            IN  IF e - 1 <= Len(s) /\ (t = n.s \/ (ic /\ Lower(t) = Lower(n.s)))
                THEN << <<e, c>> >> ELSE <<>>
      [] n.k = "in" ->
            IF Accepts(n, s, i, ic) THEN << <<i + 1, c>> >> ELSE <<>>
      [] n.k = "notin" ->
            IF Accepts(n, s, i, ic) THEN << <<i + 1, c>> >> ELSE <<>>
      [] n.k = "dot" ->
            IF Accepts(n, s, i, ic) THEN << <<i + 1, c>> >> ELSE <<>>
      [] n.k = "cat" -> MatchCat(n.xs, 1, s, i, c, ic)
      [] n.k = "alt" -> MatchAlt(n.xs, 1, s, i, c, ic)
      [] n.k = "rep" ->
            IF IsCharNode(n.x) THEN MatchRun(n, s, i, [caps |-> c, ic |-> ic])
            ELSE MatchRep(n, 0, s, i, c, ic)
      [] n.k = "grp" ->
            LET Capture(rs) ==
                    [j \in 1..Len(rs) |->
                        <<rs[j][1],
                          [rs[j][2] EXCEPT ![n.n] = SubSeq(s, i, rs[j][1] - 1)]>>]
            IN  Capture(Match(n.x, s, i, c, ic))
      [] n.k = "behind" ->
            IF i > 1 /\ CharIn(Char(s, i - 1), n.cs, ic)
            THEN << <<i, c>> >> ELSE <<>>
      [] n.k = "bol" -> IF i = 1 THEN << <<i, c>> >> ELSE <<>>
      [] n.k = "wordb" ->
            LET before == i > 1 /\ Char(s, i - 1) \in WordChars
                after == i <= Len(s) /\ Char(s, i) \in WordChars
            IN  IF before # after THEN << <<i, c>> >> ELSE <<>>

\* the matches of xs[j], xs[j+1], ... in sequence
MatchCat(xs, j, s, i, c, ic) ==
    IF j > Len(xs) THEN << <<i, c>> >>
    ELSE LET Continue(rs) == ThenCat(rs, 1, Len(rs), xs, j + 1, s, ic)
         IN  Continue(Match(xs[j], s, i, c, ic))

\* continue each of the matches rs[lo..hi], in order, with xs[j], ...
ThenCat(rs, lo, hi, xs, j, s, ic) ==
    IF lo > hi THEN <<>>
    ELSE IF lo = hi THEN MatchCat(xs, j, s, rs[lo][1], rs[lo][2], ic)
    ELSE LET mid == (lo + hi) \div 2
         IN  ThenCat(rs, lo, mid, xs, j, s, ic) \o ThenCat(rs, mid + 1, hi, xs, j, s, ic)

\* the alternatives xs[j], xs[j+1], ... tried left to right
MatchAlt(xs, j, s, i, c, ic) ==
    IF j > Len(xs) THEN <<>>
    ELSE Match(xs[j], s, i, c, ic) \o MatchAlt(xs, j + 1, s, i, c, ic)

\* the repetition n after cnt iterations: greedy tries one more iteration
\* before stopping, lazy stops before trying one more
MatchRep(n, cnt, s, i, c, ic) ==
    LET Iterate(rs) == ThenRep(rs, 1, Len(rs), n, cnt + 1, s, i, ic)
        more == IF n.hi = -1 \/ cnt < n.hi
                THEN Iterate(Match(n.x, s, i, c, ic))
                ELSE <<>>
        stop == IF cnt >= n.lo THEN << <<i, c>> >> ELSE <<>>
    IN  IF n.lazy THEN stop \o more ELSE more \o stop

\* continue each non-empty iteration among rs[lo..hi], in order, with
\* further iterations
ThenRep(rs, lo, hi, n, cnt, s, i, ic) ==
    IF lo > hi THEN <<>>
    ELSE IF lo = hi
    THEN (IF rs[lo][1] > i THEN MatchRep(n, cnt, s, rs[lo][1], rs[lo][2], ic) ELSE <<>>)
    ELSE LET mid == (lo + hi) \div 2
         IN  ThenRep(rs, lo, mid, n, cnt, s, i, ic)
             \o ThenRep(rs, mid + 1, hi, n, cnt, s, i, ic)

NoMatch == [found |-> FALSE, start |-> 0, end |-> 0, caps |-> NoCaps]

RECURSIVE SearchIn(_, _, _, _, _)
\* the leftmost match starting at a position of lo..hi, the lower half of
\* the positions before the upper half
SearchIn(n, s, lo, hi, ic) ==
    IF lo > hi THEN NoMatch
    ELSE IF lo = hi
    THEN LET First(rs) ==
                 IF rs # <<>>
                 THEN [found |-> TRUE, start |-> lo, end |-> rs[1][1], caps |-> rs[1][2]]
                 ELSE NoMatch
         IN  First(Match(n, s, lo, NoCaps, ic))
    ELSE LET mid == (lo + hi) \div 2
             Leftmost(left) ==
                 IF left.found THEN left ELSE SearchIn(n, s, mid + 1, hi, ic)
         IN  Leftmost(SearchIn(n, s, lo, mid, ic))

\* pattern.search(s, pos): the leftmost match starting at or after i
SearchFrom(n, s, i, ic) == SearchIn(n, s, i, Len(s) + 1, ic)

\* re.search(n, s)
Search(n, s, ic) ==
    IF s = "" THEN SearchIn(n, "", 1, 1, ic) ELSE SearchIn(n, s, 1, Len(s) + 1, ic)

RECURSIVE Expand(_, _)
\* a replacement template is a sequence of <<g, text>>: group g when g > 0,
\* the literal text when g = 0
Expand(tmpl, caps) ==
    IF tmpl = <<>> THEN ""
    ELSE (IF tmpl[1][1] > 0 THEN caps[tmpl[1][1]] ELSE tmpl[1][2])
         \o Expand(Tail(tmpl), caps)

RECURSIVE SubFrom(_, _, _, _, _)
\* re.sub from position i on: non-overlapping matches left to right (the
\* patterns of this program never match the empty string)
SubFrom(n, tmpl, s, i, ic) ==
    LET Replace(m) ==
            IF ~m.found \/ m.end = m.start THEN SubSeq(s, i, Len(s))
            ELSE SubSeq(s, i, m.start - 1) \o Expand(tmpl, m.caps)
                 \o SubFrom(n, tmpl, s, m.end, ic)
    IN  Replace(SearchFrom(n, s, i, ic))

\* re.sub(n, tmpl, s)
Sub(n, tmpl, s, ic) == IF s = "" THEN "" ELSE SubFrom(n, tmpl, s, 1, ic)

G(n) == <<n, "">>
T(s) == <<0, s>>

RECURSIVE SplitFrom(_, _, _, _)
\* re.split from position i on: the pieces between non-overlapping matches
SplitFrom(n, s, i, ic) ==
    LET Pieces(m) ==
            IF ~m.found \/ m.end = m.start THEN <<SubSeq(s, i, Len(s))>>
            ELSE <<SubSeq(s, i, m.start - 1)>> \o SplitFrom(n, s, m.end, ic)
    IN  Pieces(SearchFrom(n, s, i, ic))

\* re.split(n, s) for a pattern without groups
Split(n, s, ic) == IF s = "" THEN <<"">> ELSE SplitFrom(n, s, 1, ic)


\* ------------------------------------------------------------------------
\* Characters of the source outside ASCII.  Each is represented by an ASCII
\* character that occurs nowhere else in the modelled texts and, like the
\* original, is no word character, digit, whitespace or punctuation mark of
\* any pattern, and is left unchanged by str.lower().
\* ------------------------------------------------------------------------

InfoIcon == "@"          \* U+24D8 circled latin small letter i
ZeroWidthJoiner == "|"   \* U+200D
SoftHyphen == "~"        \* U+00AD
BlackStar == "*"         \* U+2605
EmDash == "="            \* U+2014

\* ------------------------------------------------------------------------
\* EnhancedGenshinProcessor.clean_text
\* ------------------------------------------------------------------------

\* r'\[\d+\]'
ReRefMarker == Cat(<<Lit("["), Plus(ReD), Lit("]")>>)

\* r'\[edit\]'
ReEditMarker == Lit("[edit]")

\* r'\[Note\s*\d+\]'
ReNoteMarker == Cat(<<Lit("[Note"), Star(ReS), Plus(ReD), Lit("]")>>)

\* r'([a-z])([A-Z])'
ReLowerUpper == Cat(<<Grp(1, ReLower), Grp(2, ReUpper)>>)

\* the (pattern, replacement) list stuck_patterns of clean_text
stuck_patterns ==
    << \* (r'(\w)(Card|Wish|Quality|Weapon|Element|Model)', r'\1 \2')
       <<Cat(<<Grp(1, ReW),
               Grp(2, Alt(<<Lit("Card"), Lit("Wish"), Lit("Quality"),
                            Lit("Weapon"), Lit("Element"), Lit("Model")>>))>>),
         <<G(1), T(" "), G(2)>> >>,
       \* (r'(Type|Bonus|Roles|Bio|Birthday|Region|Dish)([\w])', r'\1 \2')
       <<Cat(<<Grp(1, Alt(<<Lit("Type"), Lit("Bonus"), Lit("Roles"), Lit("Bio"),
                            Lit("Birthday"), Lit("Region"), Lit("Dish")>>)),
               Grp(2, ReW)>>),
         <<G(1), T(" "), G(2)>> >>,
       \* (r'(English|Chinese|Japanese|Korean)([A-Z])', r'\1 \2')
       <<Cat(<<Grp(1, Alt(<<Lit("English"), Lit("Chinese"), Lit("Japanese"),
                            Lit("Korean")>>)),
               Grp(2, ReUpper)>>),
         <<G(1), T(" "), G(2)>> >>,
       \* (r'(Playable\s*Characters)(\w)', r'\1. \2')
       <<Cat(<<Grp(1, Cat(<<Lit("Playable"), Star(ReS), Lit("Characters")>>)),
               Grp(2, ReW)>>),
         <<G(1), T(". "), G(2)>> >>,
       \* (r'(Genshin)(Impact)', r'\1 \2')
       <<Cat(<<Grp(1, Lit("Genshin")), Grp(2, Lit("Impact"))>>),
         <<G(1), T(" "), G(2)>> >>,
       \* (r'(\w)(character)(in)', r'\1 \2 \3')
       <<Cat(<<Grp(1, ReW), Grp(2, Lit("character")), Grp(3, Lit("in"))>>),
         <<G(1), T(" "), G(2), T(" "), G(3)>> >>,
       \* (r'(in)(Genshin)', r'\1 \2')
       <<Cat(<<Grp(1, Lit("in")), Grp(2, Lit("Genshin"))>>),
         <<G(1), T(" "), G(2)>> >> >>

\* r'\s+'
ReSpaces == Plus(ReS)

\* r'\s+([.,!?])'
ReSpaceBeforePunct == Cat(<<Plus(ReS), Grp(1, In({".", ",", "!", "?"}))>>)

RECURSIVE ApplyStuck(_, _)
\* for pattern, replacement in stuck_patterns: text = re.sub(...), from the
\* j-th pair on
ApplyStuck(text, j) ==
    IF j > Len(stuck_patterns) THEN text
    ELSE ApplyStuck(Sub(stuck_patterns[j][1], stuck_patterns[j][2], text, FALSE), j + 1)

\* the reference-marker removals of clean_text (lines 60-62)
RemoveMarkers(text) ==
    Sub(ReNoteMarker, <<>>,
        Sub(ReEditMarker, <<>>,
            Sub(ReRefMarker, <<>>, text, FALSE), FALSE), FALSE)

\* the special unicode removals of clean_text (lines 65-67)
RemoveSpecial(text) ==
    ReplaceChar(ReplaceChar(ReplaceChar(text, InfoIcon, ""), ZeroWidthJoiner, ""),
                SoftHyphen, "")

\* the whitespace clean-up of clean_text (lines 87-90)
CleanWhitespace(text) ==
    Strip(Sub(ReSpaceBeforePunct, <<G(1)>>, Sub(ReSpaces, <<T(" ")>>, text, FALSE), FALSE))

clean_text(text) ==
    IF text = "" THEN ""
    ELSE CleanWhitespace(
             ApplyStuck(
                 Sub(ReLowerUpper, <<G(1), T(" "), G(2)>>,
                     RemoveSpecial(RemoveMarkers(text)), FALSE),
                 1))


\* ------------------------------------------------------------------------
\* Field extractors of EnhancedGenshinProcessor
\* ------------------------------------------------------------------------

FIVE_STAR_CHARS ==
    {"Albedo", "Alhaitham", "Tartaglia", "Lyney", "Baizhu", "Chasca", "Chiori",
     "Citlali", "Clorinde", "Cyno", "Dehya", "Diluc", "Eula", "Furina",
     "Ganyu", "Hu Tao", "Itto", "Jean", "Kazuha", "Keqing", "Kinich",
     "Klee", "Mavuika", "Mona", "Mualani", "Nahida", "Navia", "Neuvillette",
     "Nilou", "Qiqi", "Raiden Shogun", "Shenhe", "Sigewinne", "Tighnari",
     "Venti", "Wanderer", "Wriothesley", "Xiao", "Xianyun", "Xilonen",
     "Yae Miko", "Yelan", "Yoimiya", "Zhongli", "Arlecchino", "Emilie",
     "Kamisato Ayaka", "Kamisato Ayato", "Kaedehara Kazuha", "Arataki Itto",
     "Sangonomiya Kokomi", "Columbina",
     "Zibai", "Ineffa", "Nefer", "Lauma", "Flins", "Aloy", "Traveler",
     "Yumemizuki Mizuki", "Durin", "Escoffier", "Skirk", "Varesa"}

\* the list five_star_indicators of extract_rarity
five_star_indicators ==
    <<"5" \o BlackStar, "5-Star", "5 Star", "Quality5",
      BlackStar \o BlackStar \o BlackStar \o BlackStar \o BlackStar>>

\* faulty variant of extract_rarity: the markers are compared case-sensitively
extract_rarity_CaseSensitive(name, intro) ==
    LET name_parts == SplitWs(name)
    IN  IF \E j \in 1..Len(name_parts) : name_parts[j] \in FIVE_STAR_CHARS THEN 5
        ELSE IF name \in FIVE_STAR_CHARS THEN 5
        ELSE IF \E j \in 1..Len(five_star_indicators) :
                    Contains(intro, five_star_indicators[j])
             THEN 5
        ELSE 4

extract_rarity(name, intro) ==
    LET name_parts == SplitWs(name)
    IN  IF \E j \in 1..Len(name_parts) : name_parts[j] \in FIVE_STAR_CHARS THEN 5
        ELSE IF name \in FIVE_STAR_CHARS THEN 5
        ELSE IF \E j \in 1..Len(five_star_indicators) :
                    Contains(Lower(intro), Lower(five_star_indicators[j]))
             THEN 5
        ELSE 4

\* r'Event Wish\s*[—-]\s*([^F]+?)(?: Featured|Release)'
ReEventWishName ==
    Cat(<<Lit("Event Wish"), Star(ReS), In({EmDash, "-"}), Star(ReS),
          Grp(1, LazyPlus(NotIn({"F"}))),
          Alt(<<Lit(" Featured"), Lit("Release")>>)>>)

\* faulty variant of extract_how_to_obtain: returns the methods found, with
\* no default
extract_how_to_obtain_NoDefault(intro) ==
    LET Methods(low) ==
            (IF Contains(low, "wishes") \/ Contains(low, "wish")
             THEN <<"Wishes">> ELSE <<>>)
            \o (IF Contains(low, "chronicled wishes")
                THEN <<"Chronicled Wishes">> ELSE <<>>)
            \o (IF Contains(low, "paimon's bargains")
                THEN <<"Paimon's Bargains">> ELSE <<>>)
            \o (IF Contains(low, "adventure rank")
                THEN <<"Adventure Rank Reward">> ELSE <<>>)
            \o (IF Contains(low, "archon quest") \/ Contains(low, "complete")
                THEN <<"Quest Reward">> ELSE <<>>)
    IN  Methods(Lower(intro))

extract_how_to_obtain(intro) ==
    LET EventWish(m) ==
            IF m.found THEN <<"Event Wish: " \o Strip(m.caps[1])>> ELSE <<>>
        Methods(low) ==
            (IF Contains(low, "wishes") \/ Contains(low, "wish")
             THEN <<"Wishes">> ELSE <<>>)
            \o (IF Contains(low, "event wish")
                THEN EventWish(Search(ReEventWishName, intro, FALSE)) ELSE <<>>)
            \o (IF Contains(low, "chronicled wishes")
                THEN <<"Chronicled Wishes">> ELSE <<>>)
            \o (IF Contains(low, "paimon's bargains")
                THEN <<"Paimon's Bargains">> ELSE <<>>)
            \o (IF Contains(low, "adventure rank")
                THEN <<"Adventure Rank Reward">> ELSE <<>>)
            \o (IF Contains(low, "archon quest") \/ Contains(low, "complete")
                THEN <<"Quest Reward">> ELSE <<>>)
        OrDefault(methods) == IF methods # <<>> THEN methods ELSE <<"Wishes">>
    IN  OrDefault(Methods(Lower(intro)))

\* _extract_field: the first option, in list order, whose lowercase form
\* occurs in the lowercased text
\* _extract_field returning the option that occurs first in the text
_extract_field_FirstInText(txt, options) ==
    LET At(text_lower, j) ==
            CHOOSE i \in 1..Len(text_lower) :
                /\ StartsWith(SubSeq(text_lower, i, Len(text_lower)), Lower(options[j]))
                /\ \A k \in 1..(i - 1) :
                       ~StartsWith(SubSeq(text_lower, k, Len(text_lower)), Lower(options[j]))
        First(text_lower, hits) ==
            IF hits = {} THEN NoneVal
            ELSE Str(options[CHOOSE j \in hits :
                                 \A h \in hits : At(text_lower, j) <= At(text_lower, h)])
        Hits(text_lower) ==
            First(text_lower,
                  {j \in 1..Len(options) : Contains(text_lower, Lower(options[j]))})
    IN  Hits(Lower(txt))

_extract_field(txt, options) ==
    LET First(hits) ==
            IF hits = {} THEN NoneVal
            ELSE Str(options[CHOOSE j \in hits : \A h \in hits : j <= h])
        Hits(text_lower) ==
            First({j \in 1..Len(options) : Contains(text_lower, Lower(options[j]))})
    IN  Hits(Lower(txt))

ElementOptions == <<"Pyro", "Hydro", "Electro", "Cryo", "Anemo", "Geo", "Dendro">>
WeaponOptions == <<"Sword", "Claymore", "Polearm", "Bow", "Catalyst">>
RegionOptions ==
    <<"Mondstadt", "Liyue", "Inazuma", "Sumeru", "Fontaine",
      "Natlan", "Snezhnaya", "Khaenri'ah", "Nod-Krai">>

model_types ==
    <<"Tall Male", "Tall Female", "Medium Male", "Medium Female",
      "Short Male", "Short Female">>

_extract_model_type(txt) ==
    LET First(hits) ==
            IF hits = {} THEN NoneVal
            ELSE Str(model_types[CHOOSE j \in hits : \A h \in hits : j <= h])
        Hits(squeezed) ==
            First({j \in 1..Len(model_types) :
                      Contains(squeezed, ReplaceChar(Lower(model_types[j]), " ", ""))})
    IN  Hits(ReplaceChar(Lower(txt), " ", ""))

affiliation_keywords ==
    <<"Knights of Favonius", "Liyue Qixing", "Fatui", "Adventurers' Guild",
      "Wangsheng Funeral Parlor", "Yashiro Commission", "Tenryou Commission",
      "Kamisato Clan", "Arataki Gang", "Watatsumi Army", "Sumeru Akademiya",
      "Spina di Rosula", "Hotel Bouffes d'ete", "House of the Hearth",
      "Maison Gardiennage", "The Crux", "Church of Favonius",
      "Grand Narukami Shrine", "Sangonomiya Shrine", "Shuumatsuban",
      "Hexenzirkel", "Eleven Fatui Harbingers", "The Seven",
      "Bubu Pharmacy", "Adepti", "Forest Rangers", "Matra",
      "Temple of Silence", "The Steambird", "Zubayr Theater",
      "Lightkeepers", "Three Moons", "Frostmoon Scions">>

RECURSIVE SelectAt(_, _, _)
\* the elements xs[j], j >= from, whose index is in keep, in order
SelectAt(xs, keep, from) ==
    IF from > Len(xs) THEN <<>>
    ELSE (IF from \in keep THEN <<xs[from]>> ELSE <<>>) \o SelectAt(xs, keep, from + 1)

extract_affiliation(intro) ==
    LET Found(intro_lower) ==
            SelectAt(affiliation_keywords,
                     {j \in 1..Len(affiliation_keywords) :
                          Contains(intro_lower, Lower(affiliation_keywords[j]))},
                     1)
    IN  Found(Lower(intro))

extract_character_roles_NoHealing(intro) ==
    LET Roles(low) ==
            [on_field |-> Contains(low, "on-field") \/ Contains(low, "on field"),
             off_field |-> Contains(low, "off-field") \/ Contains(low, "off field"),
             dps |-> Contains(low, "dps"),
             support |-> Contains(low, "support"),
             survivability |-> \/ Contains(low, "survivability")
                               \/ Contains(low, "healer")]
    IN  Roles(Lower(intro))

extract_character_roles(intro) ==
    LET Roles(low) ==
            [on_field |-> Contains(low, "on-field") \/ Contains(low, "on field"),
             off_field |-> Contains(low, "off-field") \/ Contains(low, "off field"),
             dps |-> Contains(low, "dps"),
             support |-> Contains(low, "support"),
             survivability |-> \/ Contains(low, "survivability")
                               \/ Contains(low, "healing")
                               \/ Contains(low, "healer")]
    IN  Roles(Lower(intro))

_create_role_summary_SupportFirst(roles) ==
    LET Summary(role_parts) ==
            IF role_parts # <<>> THEN Join(" / ", role_parts) ELSE "Unknown"
    IN  Summary((IF roles.support THEN <<"Support">> ELSE <<>>)
                \o (IF roles.on_field THEN <<"On-Field">> ELSE <<>>)
                \o (IF roles.off_field THEN <<"Off-Field">> ELSE <<>>)
                \o (IF roles.dps THEN <<"DPS">> ELSE <<>>)
                \o (IF roles.survivability THEN <<"Healer/Shielder">> ELSE <<>>))

_create_role_summary(roles) ==
    LET Summary(role_parts) ==
            IF role_parts # <<>> THEN Join(" / ", role_parts) ELSE "Unknown"
    IN  Summary((IF roles.on_field THEN <<"On-Field">> ELSE <<>>)
                \o (IF roles.off_field THEN <<"Off-Field">> ELSE <<>>)
                \o (IF roles.dps THEN <<"DPS">> ELSE <<>>)
                \o (IF roles.support THEN <<"Support">> ELSE <<>>)
                \o (IF roles.survivability THEN <<"Healer/Shielder">> ELSE <<>>))

extract_character_type(intro) ==
    LET Type(low) ==
            IF Contains(low, "synthetic")
            THEN IF Contains(low, "creator") \/ Contains(low, "created by")
                 THEN "Synthetic (Created)"
                 ELSE IF Contains(low, "derived from") THEN "Synthetic (Derived)"
                 ELSE "Synthetic"
            ELSE IF Contains(low, "adoptive") THEN "Adoptive"
            ELSE "Biological"
    IN  Type(Lower(intro))

\* r'[A-Z][a-z]+\s+\d{1,2},?\s*\d{4}'
ReDate ==
    Cat(<<ReUpper, Plus(ReLower), Plus(ReS), Rep(ReD, 1, 2, FALSE), Opt(Lit(",")),
          Star(ReS), Rep(ReD, 4, 4, FALSE)>>)

\* the list patterns of extract_release_date
release_date_patterns ==
    << \* r'Release\s*Date\s*([A-Z][a-z]+\s+\d{1,2},?\s*\d{4})'
       Cat(<<Lit("Release"), Star(ReS), Lit("Date"), Star(ReS), Grp(1, ReDate)>>),
       \* r'Released?\s*(?:on\s*)?([A-Z][a-z]+\s+\d{1,2},?\s*\d{4})'
       Cat(<<Lit("Release"), Opt(Lit("d")), Star(ReS),
             Opt(Cat(<<Lit("on"), Star(ReS)>>)), Grp(1, ReDate)>>) >>

extract_release_date(intro) ==
    LET Second(m) == IF m.found THEN Str(Strip(m.caps[1])) ELSE NoneVal
        First(m) ==
            IF m.found THEN Str(Strip(m.caps[1]))
            ELSE Second(Search(release_date_patterns[2], intro, FALSE))
    IN  First(Search(release_date_patterns[1], intro, FALSE))

\* r'[A-Z][a-z]+(?:\s+[A-Z][a-z]+)*'
ReCapitalizedWords ==
    Cat(<<ReUpper, Plus(ReLower), Star(Cat(<<Plus(ReS), ReUpper, Plus(ReLower)>>))>>)

\* r'<language>\s*([^\[\]]+?)(?:\s*\([^)]+\))?\s*(?:\[|<next>)'
ReVoiceActor(language, next) ==
    Cat(<<Lit(language), Star(ReS), Grp(1, LazyPlus(NotIn({"[", "]"}))),
          Opt(Cat(<<Star(ReS), Lit("("), Plus(NotIn({")"})), Lit(")")>>)),
          Star(ReS), Alt(<<Lit("["), Lit(next)>>)>>)

\* the dict patterns of extract_voice_actors, in insertion order
voice_actor_patterns ==
    << <<"english", Cat(<<Lit("English"), Star(ReS), Grp(1, ReCapitalizedWords)>>)>>,
       <<"chinese", ReVoiceActor("Chinese", "Japanese")>>,
       <<"japanese", ReVoiceActor("Japanese", "Korean")>>,
       <<"korean", ReVoiceActor("Korean", "Additional")>> >>

\* r'\s*\([^)]*\)\s*'
ReParenthetical ==
    Cat(<<Star(ReS), Lit("("), Star(NotIn({")"})), Lit(")"), Star(ReS)>>)

\* the actor name of extract_voice_actors for the j-th language: the cleaned
\* capture, or "" when the pattern does not match
VoiceActor(intro, j) ==
    LET Actor(m) ==
            IF ~m.found THEN ""
            ELSE Sub(ReRefMarker, <<>>,
                     Sub(ReParenthetical, <<>>, Strip(m.caps[1]), FALSE), FALSE)
    IN  Actor(Search(voice_actor_patterns[j][2], intro, FALSE))

RECURSIVE VoiceActorsFrom(_, _)
VoiceActorsFrom(intro, j) ==
    IF j > Len(voice_actor_patterns) THEN <<>>
    ELSE LET Item(actor) ==
                 IF Len(actor) > 1 /\ Len(actor) < 50
                 THEN << <<voice_actor_patterns[j][1], actor>> >> ELSE <<>>
         IN  Item(VoiceActor(intro, j)) \o VoiceActorsFrom(intro, j + 1)

\* extract_voice_actors: the dict as its items in insertion order
extract_voice_actors(intro) == VoiceActorsFrom(intro, 1)

\* int(s) for a string of decimal digits
ParseInt(s) ==
    LET DigitVal(c) ==
            CASE c = "0" -> 0 [] c = "1" -> 1 [] c = "2" -> 2 [] c = "3" -> 3
              [] c = "4" -> 4 [] c = "5" -> 5 [] c = "6" -> 6 [] c = "7" -> 7
              [] c = "8" -> 8 [] c = "9" -> 9
        val[k \in 0..Len(s)] ==
            IF k = 0 THEN 0 ELSE 10 * val[k - 1] + DigitVal(Char(s, k))
    IN  val[Len(s)]

\* the list patterns of extract_event_wishes (matched with re.IGNORECASE)
event_wishes_patterns ==
    << \* r'promoted or featured with a drop-rate boost in\s*(\d+)\s*Event Wish'
       Cat(<<Lit("promoted or featured with a drop-rate boost in"), Star(ReS),
             Grp(1, Plus(ReD)), Star(ReS), Lit("Event Wish")>>),
       \* r'featured.*?(\d+)\s*Event Wish'
       Cat(<<Lit("featured"), LazyStar(Dot), Grp(1, Plus(ReD)), Star(ReS),
             Lit("Event Wish")>>) >>

extract_event_wishes(intro) ==
    LET Second(m) == IF m.found THEN IntVal(ParseInt(m.caps[1])) ELSE NoneVal
        First(m) ==
            IF m.found THEN IntVal(ParseInt(m.caps[1]))
            ELSE Second(Search(event_wishes_patterns[2], intro, TRUE))
    IN  First(Search(event_wishes_patterns[1], intro, TRUE))

\* the list patterns of extract_special_dish
special_dish_patterns ==
    << \* r'Special\s*Dish\s*([A-Z][^N]+?)(?: Namecard|How)'
       Cat(<<Lit("Special"), Star(ReS), Lit("Dish"), Star(ReS),
             Grp(1, Cat(<<ReUpper, LazyPlus(NotIn({"N"}))>>)),
             Alt(<<Lit(" Namecard"), Lit("How")>>)>>),
       \* r'Special\s*Dish([^N]+?)Namecard'
       Cat(<<Lit("Special"), Star(ReS), Lit("Dish"),
             Grp(1, LazyPlus(NotIn({"N"}))), Lit("Namecard")>>) >>

\* the candidate of extract_special_dish for the j-th pattern ("" when the
\* pattern does not match)
SpecialDish(intro, j) ==
    LET Dish(m) ==
            IF ~m.found THEN ""
            ELSE Strip(Sub(ReRefMarker, <<>>, Strip(m.caps[1]), FALSE))
    IN  Dish(Search(special_dish_patterns[j], intro, FALSE))

extract_special_dish(intro) ==
    LET Valid(d) == Len(d) > 2 /\ Len(d) < 100
        Second(dish) == IF Valid(dish) THEN Str(dish) ELSE NoneVal
        First(dish) ==
            IF Valid(dish) THEN Str(dish) ELSE Second(SpecialDish(intro, 2))
    IN  First(SpecialDish(intro, 1))

\* the list patterns of extract_namecard
namecard_patterns ==
    << \* r'Namecard\s*([A-Z][^H]+?)(?:How|Featured|Release)'
       Cat(<<Lit("Namecard"), Star(ReS),
             Grp(1, Cat(<<ReUpper, LazyPlus(NotIn({"H"}))>>)),
             Alt(<<Lit("How"), Lit("Featured"), Lit("Release")>>)>>),
       \* r'Namecard([^H]+?)How'
       Cat(<<Lit("Namecard"), Grp(1, LazyPlus(NotIn({"H"}))), Lit("How")>>) >>

\* the candidate of extract_namecard for the j-th pattern
Namecard(intro, j) ==
    LET Card(m) ==
            IF ~m.found THEN ""
            ELSE Sub(ReRefMarker, <<>>, Strip(m.caps[1]), FALSE)
    IN  Card(Search(namecard_patterns[j], intro, FALSE))

extract_namecard(intro) ==
    LET Second(namecard) == IF Len(namecard) > 2 THEN Str(namecard) ELSE NoneVal
        First(namecard) ==
            IF Len(namecard) > 2 THEN Str(namecard) ELSE Second(Namecard(intro, 2))
    IN  First(Namecard(intro, 1))

\* r'Real\s*Name\s*([A-Z][a-z]+(?:\s+[A-Z][a-z]+)*)'
ReRealName ==
    Cat(<<Lit("Real"), Star(ReS), Lit("Name"), Star(ReS), Grp(1, ReCapitalizedWords)>>)

extract_real_name(intro) ==
    LET Name(m) ==
            IF m.found /\ Len(Strip(m.caps[1])) > 2 THEN Str(Strip(m.caps[1]))
            ELSE NoneVal
    IN  Name(Search(ReRealName, intro, FALSE))

\* r'"?([^",.\[\]]+)"?'
ReTitleTail ==
    Cat(<<Opt(Lit("\"")), Grp(1, Plus(NotIn({"\"", ",", ".", "[", "]"}))), Opt(Lit("\""))>>)

\* the list title_patterns of extract_title (matched with re.IGNORECASE)
title_patterns ==
    << \* r'"([^"]+)"'
       Cat(<<Lit("\""), Grp(1, Plus(NotIn({"\""}))), Lit("\"")>>),
       \* r'also known as\s+"?([^",.\[\]]+)"?'
       Cat(<<Lit("also known as"), Plus(ReS), ReTitleTail>>),
       \* r'known as\s+"?([^",.\[\]]+)"?'
       Cat(<<Lit("known as"), Plus(ReS), ReTitleTail>>),
       \* r'titled\s+"?([^",.\[\]]+)"?'
       Cat(<<Lit("titled"), Plus(ReS), ReTitleTail>>) >>

RECURSIVE TitleFrom(_, _)
\* the loop of extract_title from the j-th pattern on
TitleFrom(intro, j) ==
    IF j > Len(title_patterns) THEN NoneVal
    ELSE LET Title(found, title) ==
                 IF found /\ Len(title) > 3 /\ Len(title) < 50 THEN Str(title)
                 ELSE TitleFrom(intro, j + 1)
             Matched(m) == Title(m.found, Strip(m.caps[1]))
         IN  Matched(Search(title_patterns[j], intro, TRUE))

extract_title(intro) == TitleFrom(intro, 1)

\* r'[A-Z][a-z]+\s*[A-Z]?[a-z]*'
ReConstellationName ==
    Cat(<<ReUpper, Plus(ReLower), Star(ReS), Opt(ReUpper), Star(ReLower)>>)

\* the list patterns of extract_constellation
constellation_patterns ==
    << \* r'Constellation\s*([A-Z][a-z]+\s*[A-Z]?[a-z]*)'
       Cat(<<Lit("Constellation"), Star(ReS), Grp(1, ReConstellationName)>>),
       \* r'lation\s*([A-Z][a-z]+\s*[A-Z]?[a-z]*)'
       Cat(<<Lit("lation"), Star(ReS), Grp(1, ReConstellationName)>>) >>

RECURSIVE ConstellationFrom(_, _)
\* the loop of extract_constellation from the j-th pattern on
ConstellationFrom(intro, j) ==
    IF j > Len(constellation_patterns) THEN NoneVal
    ELSE LET Constellation(found, constellation) ==
                 IF found /\ Len(constellation) > 3
                    /\ ~StartsWith(constellation, "Story")
                 THEN Str(constellation)
                 ELSE ConstellationFrom(intro, j + 1)
             Matched(m) == Constellation(m.found, Strip(m.caps[1]))
         IN  Matched(Search(constellation_patterns[j], intro, FALSE))

extract_constellation(intro) == ConstellationFrom(intro, 1)

\* r'Birthday\s*([A-Z][a-z]+\s+\d+)' (process_character)
ReBirthday ==
    Cat(<<Lit("Birthday"), Star(ReS),
          Grp(1, Cat(<<ReUpper, Plus(ReLower), Plus(ReS), Plus(ReD)>>))>>)

\* ------------------------------------------------------------------------
\* extract_clean_description and its helpers
\* ------------------------------------------------------------------------

\* str(v) as an f-string renders it
RECURSIVE IntToStr(_)
IntToStr(n) ==
    LET DigitOf(d) == SubSeq("0123456789", d + 1, d + 1)
    IN  IF n < 0 THEN "-" \o IntToStr(0 - n)
        ELSE IF n < 10 THEN DigitOf(n)
        ELSE IntToStr(n \div 10) \o DigitOf(n % 10)

Fmt(v) ==
    CASE v.t = "None" -> "None"
      [] v.t = "str" -> v.s
      [] v.t = "int" -> IntToStr(v.n)

\* bool(v) for a value that is None, a string or an integer
Truthy(v) ==
    CASE v.t = "None" -> FALSE
      [] v.t = "str" -> v.s # ""
      [] v.t = "int" -> v.n # 0
      [] v.t = "dict" -> v.items # <<>>

_is_system_character_NameOnly(nm, url, txt) ==
    LET Mentions(low) ==
            \/ Contains(low, "wonderland")
            \/ Contains(low, "gameplay mode")
            \/ Contains(low, "system character")
    IN  Mentions(Lower(nm))

_is_system_character(nm, url, txt) ==
    LET Mentions(low) ==
            \/ Contains(low, "wonderland")
            \/ Contains(low, "gameplay mode")
            \/ Contains(low, "system character")
    IN  Mentions(Lower(nm \o " " \o Fmt(url) \o " " \o txt))

SystemCharacterDescription ==
    "The Wonderland Manekin is a playable system character representing "
    \o "the Miliastra Wonderland gameplay mode in Genshin Impact."

\* r'(?<=[.!?])\s+'
ReSentenceEnd == Cat(<<Behind({".", "!", "?"}), Plus(ReS)>>)

_aggressive_spacing_fix(txt) ==
    IF txt = "" THEN txt
    ELSE LET t1 == Sub(ReLowerUpper, <<G(1), T(" "), G(2)>>, txt, FALSE)
             t2 == Sub(Cat(<<Grp(1, Lit("is")), Grp(2, ReUpper)>>),
                       <<G(1), T(" "), G(2)>>, t1, FALSE)
             t3 == Sub(Cat(<<Grp(1, ReAlpha), Grp(2, Lit("character"))>>),
                       <<G(1), T(" character")>>, t2, TRUE)
             t4 == Sub(Cat(<<Grp(1, ReAlpha), Grp(2, Lit("Archon"))>>),
                       <<G(1), T(" Archon")>>, t3, FALSE)
             t5 == Sub(Cat(<<Grp(1, ReAlpha), Grp(2, Lit("Harbinger"))>>),
                       <<G(1), T(" Harbinger")>>, t4, FALSE)
         IN  Strip(Sub(Plus(ReS), <<T(" ")>>, t5, FALSE))

\* the list MARKERS of _extract_marker_lore (matched with re.IGNORECASE)
MARKERS(nm) ==
    << \* rf'Playable Characters\s*{re.escape(name)}'
       Cat(<<Lit("Playable Characters"), Star(ReS), Lit(nm)>>),
       \* rf'Playable Characters.*?{re.escape(name)}'
       Cat(<<Lit("Playable Characters"), LazyStar(Dot), Lit(nm)>>),
       \* rf'{re.escape(name)}\s+is\s+a\s+playable'
       Cat(<<Lit(nm), Plus(ReS), Lit("is"), Plus(ReS), Lit("a"), Plus(ReS),
             Lit("playable")>>) >>

\* the elements of xs that satisfy Keep, in order
RECURSIVE FilterSeq(_, _, _)
FilterSeq(xs, Keep(_), from) ==
    IF from > Len(xs) THEN <<>>
    ELSE (IF Keep(xs[from]) THEN <<xs[from]>> ELSE <<>>) \o FilterSeq(xs, Keep, from + 1)

\* [f(x) for x in xs]
MapSeq(xs, F(_)) == [j \in 1..Len(xs) |-> F(xs[j])]

\* the sentences that _extract_marker_lore takes after the j-th marker
MarkerLore(txt, nm, j) ==
    LET InRange(x) == 40 <= Len(x) /\ Len(x) <= 400
        Take(sentences) ==
            FilterSeq(MapSeq(SubSeq(sentences, 1,
                                    IF Len(sentences) < 3 THEN Len(sentences) ELSE 3),
                             Strip),
                      InRange, 1)
        Tail800(m) ==
            SubSeq(txt, m.end, IF m.end + 799 < Len(txt) THEN m.end + 799 ELSE Len(txt))
        After(m) ==
            IF ~m.found THEN <<>> ELSE Take(Split(ReSentenceEnd, Tail800(m), FALSE))
    IN  After(Search(MARKERS(nm)[j], txt, TRUE))

_extract_marker_lore(txt, nm) ==
    MarkerLore(txt, nm, 1) \o MarkerLore(txt, nm, 2) \o MarkerLore(txt, nm, 3)

\* the list patterns of _extract_role_reveal_lore
role_reveal_patterns ==
    << Lit("is later revealed to be"),
       Cat(<<Lit("is the "), LazyStar(Dot), Lit(" archon")>>),
       Cat(<<Lit("is the "), LazyStar(Dot), Lit(" harbinger")>>),
       Lit("a consultant of"),
       Cat(<<Lit("former "), LazyStar(Dot), Lit(" of")>>),
       Lit("leader of"),
       Lit("founder of"),
       Lit("from another world"),
       Lit("crossover character") >>

_extract_role_reveal_lore(sentences) ==
    LET Reveals(x) ==
            /\ \E j \in 1..Len(role_reveal_patterns) :
                   Search(role_reveal_patterns[j], Lower(x), FALSE).found
            /\ 40 <= Len(x) /\ Len(x) <= 300
    IN  MapSeq(FilterSeq(sentences, Reveals, 1), Strip)

IDENTITY_KEYWORDS ==
    <<"archon", "god", "deity", "immortal", "former", "current", "leader",
      "founder", "captain", "consultant", "knight", "descendant", "wander",
      "guardian">>

NOISE ==
    <<"voice actor", "english", "chinese", "japanese", "birthday",
      "constellation", "release date", "featured", "event wish", "how to obtain">>

_score_sentence(sentence, nm) ==
    LET \* r'^(a|an|the)\s+'
        opener == Cat(<<Bol, Alt(<<Lit("a"), Lit("an"), Lit("the")>>), Plus(ReS)>>)
        \* r'\b(he|she)\s+is\b'
        pronoun == Cat(<<WordB, Alt(<<Lit("he"), Lit("she")>>), Plus(ReS), Lit("is"), WordB>>)
        Score(low) ==
            (IF Match(opener, low, 1, NoCaps, FALSE) # <<>> THEN 3 ELSE 0)
            + (IF Search(pronoun, low, FALSE).found THEN 3 ELSE 0)
            + (IF Contains(low, Lower(nm)) THEN 4 ELSE 0)
            + 2 * Cardinality({j \in 1..Len(IDENTITY_KEYWORDS) :
                                  Contains(low, IDENTITY_KEYWORDS[j])})
            - 4 * Cardinality({j \in 1..Len(NOISE) : Contains(low, NOISE[j])})
    IN  Score(Lower(sentence))

\* selected without the test sc >= 4: the three stripped sentences of 30 to
\* 400 characters that the sort puts first
SelectedSentences_NoThreshold(sentences, nm) ==
    LET ScoreOf(x) == _score_sentence(x, nm)
        Top(stripped, score, good) ==
            LET Before(j) ==
                    {k \in good : score[k] > score[j] \/ (score[k] = score[j] /\ k < j)}
            IN  [r \in 1..(IF Cardinality(good) < 3 THEN Cardinality(good) ELSE 3) |->
                    stripped[CHOOSE j \in good : Cardinality(Before(j)) = r - 1]]
        Good(stripped, score) ==
            Top(stripped, score,
                {j \in 1..Len(stripped) :
                    30 <= Len(stripped[j]) /\ Len(stripped[j]) <= 400})
        Scored(stripped) == Good(stripped, MapSeq(stripped, ScoreOf))
    IN  Scored(MapSeq(sentences, Strip))

\* the list selected of extract_clean_description: of the stripped sentences
\* of 30 to 400 characters that score at least 4, the three that a stable
\* sort by descending score puts first
SelectedSentences(sentences, nm) ==
    LET ScoreOf(x) == _score_sentence(x, nm)
        Top(stripped, score, good) ==
            LET Before(j) ==
                    {k \in good : score[k] > score[j] \/ (score[k] = score[j] /\ k < j)}
            IN  [r \in 1..(IF Cardinality(good) < 3 THEN Cardinality(good) ELSE 3) |->
                    stripped[CHOOSE j \in good : Cardinality(Before(j)) = r - 1]]
        Good(stripped, score) ==
            Top(stripped, score,
                {j \in 1..Len(stripped) :
                    /\ 30 <= Len(stripped[j]) /\ Len(stripped[j]) <= 400
                    /\ score[j] >= 4})
        Scored(stripped) == Good(stripped, MapSeq(stripped, ScoreOf))
    IN  Scored(MapSeq(sentences, Strip))

AppendNew_NoDedup(parts, xs) == parts \o xs

RECURSIVE AppendNew(_, _)
\* for s in xs: if s not in parts: parts.append(s)
AppendNew(parts, xs) ==
    IF xs = <<>> THEN parts
    ELSE AppendNew(IF \E j \in 1..Len(parts) : parts[j] = xs[1]
                   THEN parts ELSE Append(parts, xs[1]),
                   Tail(xs))

\* extract_clean_description once official_intro (None or a string) is known
DescriptionFrom(nm, txt, official_intro) ==
    LET parts0 == IF Truthy(official_intro) THEN <<official_intro.s>> ELSE <<>>
        Joined(description_parts, sentences) ==
            IF description_parts # <<>>
            THEN Join(" ", SubSeq(description_parts, 1,
                                  IF Len(description_parts) < 3
                                  THEN Len(description_parts) ELSE 3))
            ELSE sentences[1]
        Parts(fixed_intro, sentences) ==
            Joined(AppendNew(AppendNew(AppendNew(parts0,
                                                 _extract_marker_lore(fixed_intro, nm)),
                                       _extract_role_reveal_lore(sentences)),
                             SelectedSentences(sentences, nm)),
                   sentences)
        Description(fixed_intro) ==
            Parts(fixed_intro, Split(ReSentenceEnd, fixed_intro, FALSE))
    IN  Strip(Sub(Plus(ReS), <<T(" ")>>,
                  clean_text(Description(_aggressive_spacing_fix(txt))), FALSE))

\* the final assembly and cleanup of extract_clean_description
FinalDescription(description_parts, sentences) ==
    LET Cleanup(description) ==
            Strip(Sub(Plus(ReS), <<T(" ")>>, clean_text(description), FALSE))
    IN  Cleanup(IF description_parts # <<>>
                THEN Join(" ", SubSeq(description_parts, 1,
                                      IF Len(description_parts) < 3
                                      THEN Len(description_parts) ELSE 3))
                ELSE sentences[1])

\* _extract_official_intro: the outcome of the call
_extract_official_intro(sections) ==
    IF ~Truthy(sections) THEN Returned(NoneVal)
    ELSE IF sections.t # "dict" THEN Raised(NoAttribute(sections, "items"))
    ELSE LET items == sections.items
             Outcome(first) ==
                 IF first.t = "str" THEN Returned(Str(Strip(first.s)))
                 ELSE Raised(NoLen(first))
             StopAt(stops) ==
                 IF stops = {} THEN Returned(NoneVal)
                 ELSE Outcome(items[CHOOSE j \in stops : \A k \in stops : j <= k][2])
             \* the items at which the loop stops: the key matches and the
             \* value is true and is measured by len()
         IN  StopAt({j \in 1..Len(items) :
                        /\ Lower(items[j][1]) = "official introduction"
                        /\ Truthy(items[j][2])
                        /\ (items[j][2].t = "str" => Len(items[j][2].s) > 200)})

\* extract_clean_description: the outcome of the call
extract_clean_description(nm, txt, sections, url) ==
    IF _is_system_character(nm, url, txt) THEN Returned(Str(SystemCharacterDescription))
    ELSE LET Describe(official_intro) ==
                 IF official_intro.t = "raise" THEN official_intro
                 ELSE Returned(Str(DescriptionFrom(nm, txt, official_intro.value)))
         IN  Describe(_extract_official_intro(sections))

\* ------------------------------------------------------------------------
\* process_character
\* ------------------------------------------------------------------------

_clean_section_name(nm) ==
    Strip(Sub(Cat(<<Lit("["), LazyStar(Dot), Lit("]")>>), <<>>,
              Sub(Lit("[]"), <<>>, nm, FALSE), FALSE))

RECURSIVE CleanSections(_, _)
\* the dict comprehension of process_character over the raw items; acc holds
\* the items built so far
CleanSections(items, acc) ==
    IF items = <<>> THEN acc
    ELSE LET k == items[1][1]
             v == items[1][2]
         IN  CleanSections(Tail(items),
                 IF Truthy(v) /\ Len(v.s) > 20
                 THEN ItemSet(acc, _clean_section_name(k), clean_text(v.s))
                 ELSE acc)

UpperChar(c) ==
    IF c \in LowerLetters THEN CHOOSE u \in UpperLetters : LowerOf[u] = c ELSE c

\* str.capitalize()
Capitalize(s) ==
    IF s = "" THEN "" ELSE UpperChar(Char(s, 1)) \o Lower(SubSeq(s, 2, Len(s)))

skip_sections == <<"Ascensions", "Stats", "Wishes", "Bargains", "Gallery", "Trivia">>

\* the list fields of _create_rag_text
rag_fields ==
    << <<"Element", "element">>, <<"Weapon", "weapon">>, <<"Rarity", "rarity">>,
       <<"Region", "region">>, <<"Model", "model_type">>, <<"Birthday", "birthday">>,
       <<"Constellation", "constellation">>, <<"Character Type", "character_type">> >>

RECURSIVE FlatMap(_, _, _)
\* the concatenation of F(xs[j]) for j from from on
FlatMap(xs, F(_), from) ==
    IF from > Len(xs) THEN <<>> ELSE F(xs[from]) \o FlatMap(xs, F, from + 1)

\* the list parts of _create_rag_text (lines 683-778)
rag_parts(info) ==
    LET Opt1(key) == GetOr(info, key, NoneVal)
        List(key) == GetOr(info, key, <<>>)
        FieldLine(f) ==
            IF ~Truthy(Opt1(f[2])) THEN <<>>
            ELSE IF f[2] = "rarity"
            THEN <<"- " \o f[1] \o ": " \o Fmt(Opt1(f[2])) \o "-Star">>
            ELSE <<"- " \o f[1] \o ": " \o Fmt(Opt1(f[2]))>>
        MethodLine(method) == <<"- " \o method>>
        ActorLine(item) == <<"- " \o Capitalize(item[1]) \o ": " \o item[2]>>
        Block(key, title) ==
            IF Truthy(Opt1(key)) THEN <<"## " \o title, "- " \o Fmt(Opt1(key)), "">> ELSE <<>>
        SectionLines(item) ==
            IF /\ ~\E j \in 1..Len(skip_sections) : Contains(item[1], skip_sections[j])
               /\ Len(item[2]) > 30
            THEN <<"## " \o item[1], item[2], "">>
            ELSE <<>>
        parts ==
            <<"# " \o Fmt(info["name"])>>
            \o (IF Truthy(Opt1("title"))
                THEN <<"Also known as: " \o Fmt(info["title"])>> ELSE <<>>)
            \o (IF Truthy(Opt1("real_name")) /\ Opt1("real_name") # info["name"]
                THEN <<"Real name: " \o Fmt(info["real_name"])>> ELSE <<>>)
            \o <<"", "## Basic Information">>
            \o FlatMap(rag_fields, FieldLine, 1)
            \o (IF List("affiliations") # <<>>
                THEN <<"- Affiliations: " \o Join(", ", info["affiliations"])>> ELSE <<>>)
            \o <<"">>
            \o (IF Truthy(Opt1("role_summary"))
                THEN <<"## Character Roles", "- Role: " \o Fmt(info["role_summary"]), "">>
                ELSE <<>>)
            \o (IF List("how_to_obtain") # <<>>
                THEN <<"## How to Obtain">>
                     \o FlatMap(info["how_to_obtain"], MethodLine, 1)
                     \o (IF Truthy(Opt1("event_wishes_count"))
                         THEN <<"- Featured in " \o Fmt(info["event_wishes_count"])
                                \o " Event Wishes">>
                         ELSE <<>>)
                     \o <<"">>
                ELSE <<>>)
            \o (IF Truthy(Opt1("release_date"))
                THEN <<"## Release Date", "Released on: " \o Fmt(info["release_date"]), "">>
                ELSE <<>>)
            \o (IF List("voice_actors") # <<>>
                THEN <<"## Voice Actors">> \o FlatMap(info["voice_actors"], ActorLine, 1)
                     \o <<"">>
                ELSE <<>>)
            \o Block("special_dish", "Special Dish")
            \o Block("namecard", "Namecard")
            \o (IF Truthy(Opt1("description"))
                THEN <<"## About", Fmt(info["description"]), "">> ELSE <<>>)
            \o FlatMap(List("sections"), SectionLines, 1)
    IN  parts

\* _create_rag_text with the Special Dish block moved behind the sections
_create_rag_text_DishLast(info) ==
    LET Moved(dish) ==
            rag_parts([info EXCEPT !["special_dish"] = NoneVal])
            \o (IF Truthy(dish) THEN <<"## Special Dish", "- " \o Fmt(dish), "">> ELSE <<>>)
    IN  Join("\n", Moved(info["special_dish"]))

_create_rag_text(info) == Join("\n", rag_parts(info))

\* the record of process_character for a name, an introduction, a url, a
\* description and cleaned sections, once nothing has raised
InfoOf(nm, txt, url, description, sections) ==
    LET Info(roles) ==
            [name |-> Str(nm),
             url |-> url,
             element |-> _extract_field(txt, ElementOptions),
             weapon |-> _extract_field(txt, WeaponOptions),
             rarity |-> IntVal(extract_rarity(nm, txt)),
             region |-> _extract_field(txt, RegionOptions),
             model_type |-> _extract_model_type(txt),
             title |-> extract_title(txt),
             affiliations |-> extract_affiliation(txt),
             constellation |-> extract_constellation(txt),
             roles |-> roles,
             role_summary |-> Str(_create_role_summary(roles)),
             how_to_obtain |-> extract_how_to_obtain(txt),
             release_date |-> extract_release_date(txt),
             voice_actors |-> extract_voice_actors(txt),
             character_type |-> Str(extract_character_type(txt)),
             event_wishes_count |-> extract_event_wishes(txt),
             special_dish |-> extract_special_dish(txt),
             namecard |-> extract_namecard(txt),
             real_name |-> extract_real_name(txt),
             description |-> description,
             sections |-> sections]
        WithBirthday(info, birthday_match) ==
            IF birthday_match.found
            THEN info @@ [birthday |-> Str(birthday_match.caps[1])]
            ELSE info
        WithFullText(info) == info @@ [full_text |-> Str(_create_rag_text(info))]
    IN  WithFullText(WithBirthday(Info(extract_character_roles(txt)),
                                  Search(ReBirthday, txt, FALSE)))

\* process_character from the first use of name and intro on: the outcome
\* of the call, the first exception in evaluation order or the returned record
ProcessFields(raw_data, nm, txt) ==
    LET url == ItemGet(raw_data.items, "url", Str(""))
        sections == ItemGet(raw_data.items, "sections", Dict(<<>>))
    IN  IF txt.t # "str" THEN Raised(NoAttribute(txt, "lower"))
        ELSE IF nm.t # "str" THEN Raised(NoAttribute(nm, "split"))
        ELSE LET unsized == {j \in 1..Len(sections.items) :
                                sections.items[j][2].t = "int" /\ Truthy(sections.items[j][2])}
                 Rest(description) ==
                     IF description.t = "raise" THEN description
                     ELSE IF sections.t # "dict"
                     THEN Raised(NoAttribute(sections, "items"))
                     ELSE IF unsized # {}
                     THEN Raised(NoLen(sections.items[CHOOSE j \in unsized : TRUE][2]))
                     ELSE Returned(InfoOf(nm.s, txt.s, url, description.value,
                                          CleanSections(sections.items, <<>>)))
             IN  Rest(extract_clean_description(nm.s, txt.s, sections, url))

\* process_character with raw_data['name'] in place of raw_data.get('name',
\* 'Unknown'), and likewise for the introduction: a missing key raises
process_character_NoDefaults(raw_data) ==
    IF raw_data.t # "dict" THEN Raised(NoAttribute(raw_data, "get"))
    ELSE IF ~HasKey(raw_data.items, "name") THEN Raised("'name'")
    ELSE IF ~HasKey(raw_data.items, "introduction") THEN Raised("'introduction'")
    ELSE ProcessFields(raw_data, ItemGet(raw_data.items, "name", NoneVal),
                       ItemGet(raw_data.items, "introduction", NoneVal))

process_character(raw_data) ==
    IF raw_data.t # "dict" THEN Raised(NoAttribute(raw_data, "get"))
    ELSE ProcessFields(raw_data,
                       ItemGet(raw_data.items, "name", Str("Unknown")),
                       ItemGet(raw_data.items, "introduction", Str("")))

\* ------------------------------------------------------------------------
\* EnhancedGenshinProcessor.create_smart_chunks: the chunks of one record.
\* A processed record is a function of its keys; scalar fields hold None, a
\* string or an integer, list fields a sequence, dict fields their items.
\* ------------------------------------------------------------------------

\* the default chunk_size of create_smart_chunks
SmartChunkSize == 800

\* the length a description or a section body must exceed to get a chunk
MinBodyLength == 50

\* the prefix of the id with the letter case of the name kept
IdPrefix_KeepCase(nm) == ReplaceChar(nm.s, " ", "_")

\* f"{name.lower().replace(' ', '_')}"
IdPrefix(nm) == ReplaceChar(Lower(nm.s), " ", "_")

\* the metadata dict of a chunk: char.get(key) for each key
Metadata(char, keys) == [k \in keys |-> GetOr(char, k, NoneVal)]

\* chunk 1 (lines 819-848)
basic_info_chunk(char) ==
    LET nm == GetOr(char, "name", Str("Unknown"))
        basic_info ==
            "# " \o Fmt(nm) \o "\n\n## Basic Information\n"
            \o "- Element: " \o Fmt(GetOr(char, "element", Str("Unknown"))) \o "\n"
            \o "- Weapon: " \o Fmt(GetOr(char, "weapon", Str("Unknown"))) \o "\n"
            \o "- Rarity: " \o Fmt(GetOr(char, "rarity", IntVal(4))) \o "-Star\n"
            \o "- Region: " \o Fmt(GetOr(char, "region", Str("Unknown"))) \o "\n"
            \o "- Role: " \o Fmt(GetOr(char, "role_summary", Str("Unknown"))) \o "\n"
            \o (IF GetOr(char, "affiliations", <<>>) # <<>>
                THEN "- Affiliations: " \o Join(", ", char["affiliations"]) \o "\n"
                ELSE "")
            \o (IF Truthy(GetOr(char, "birthday", NoneVal))
                THEN "- Birthday: " \o Fmt(char["birthday"]) \o "\n" ELSE "")
            \o (IF Truthy(GetOr(char, "release_date", NoneVal))
                THEN "- Release Date: " \o Fmt(char["release_date"]) \o "\n" ELSE "")
    IN  [id |-> IdPrefix(nm) \o "_basic",
         character |-> nm,
         chunk_type |-> "basic_info",
         content |-> Strip(basic_info),
         metadata |-> Metadata(char, {"element", "weapon", "rarity", "region",
                                      "role_summary", "url"})]

\* the chunk built at lines 852-867
description_chunk(char) ==
    LET nm == GetOr(char, "name", Str("Unknown"))
    IN  [id |-> IdPrefix(nm) \o "_description",
         character |-> nm,
         chunk_type |-> "description",
         content |-> Strip("# " \o Fmt(nm) \o " - Description\n\n"
                           \o Fmt(char["description"]) \o "\n"),
         metadata |-> Metadata(char, {"element", "weapon", "region", "url"})]

\* chunk 2 with len(char['description']) >= 50 as its condition
description_chunks_AtLeast(char) ==
    IF /\ Truthy(GetOr(char, "description", NoneVal))
       /\ Len(char["description"].s) >= MinBodyLength
    THEN <<description_chunk(char)>> ELSE <<>>

\* chunk 2 (lines 851-867): the chunks appended for the description
description_chunks(char) ==
    IF /\ Truthy(GetOr(char, "description", NoneVal))
       /\ Len(char["description"].s) > MinBodyLength
    THEN <<description_chunk(char)>> ELSE <<>>

\* chunk 3 (lines 870-899): the chunks appended for the meta information
meta_info_chunks(char) ==
    LET nm == GetOr(char, "name", Str("Unknown"))
        voice_actors == GetOr(char, "voice_actors", <<>>)
        special_dish == GetOr(char, "special_dish", NoneVal)
        namecard == GetOr(char, "namecard", NoneVal)
        how_to_obtain == GetOr(char, "how_to_obtain", <<>>)
        ActorLine(item) == <<"- " \o Capitalize(item[1]) \o ": " \o item[2] \o "\n">>
        MethodLine(method) == <<"- " \o method \o "\n">>
        meta_content ==
            "# " \o Fmt(nm) \o " - Additional Info\n\n"
            \o (IF voice_actors # <<>>
                THEN "## Voice Actors\n" \o Join("", FlatMap(voice_actors, ActorLine, 1))
                     \o "\n"
                ELSE "")
            \o (IF Truthy(special_dish)
                THEN "## Special Dish\n- " \o Fmt(special_dish) \o "\n\n" ELSE "")
            \o (IF Truthy(namecard)
                THEN "## Namecard\n- " \o Fmt(namecard) \o "\n\n" ELSE "")
            \o (IF how_to_obtain # <<>>
                THEN "## How to Obtain\n" \o Join("", FlatMap(how_to_obtain, MethodLine, 1))
                ELSE "")
    IN  IF voice_actors # <<>> \/ Truthy(special_dish)
        THEN << [id |-> IdPrefix(nm) \o "_meta",
                 character |-> nm,
                 chunk_type |-> "meta_info",
                 content |-> Strip(meta_content),
                 metadata |-> Metadata(char, {"element", "url"})] >>
        ELSE <<>>

\* the section chunk whose content is the section body alone, without the
\* "# name - section" heading
section_chunk_BodyOnly(char, section_name, section_content) ==
    LET nm == GetOr(char, "name", Str("Unknown"))
    IN  [id |-> IdPrefix(nm) \o "_" \o ReplaceChar(Lower(section_name), " ", "_"),
         character |-> nm,
         chunk_type |-> "section",
         section_name |-> section_name,
         content |-> Strip(section_content),
         metadata |-> Metadata(char, {"element", "weapon", "region", "url"})]

\* the chunk built at lines 904-920
section_chunk(char, section_name, section_content) ==
    LET nm == GetOr(char, "name", Str("Unknown"))
    IN  [id |-> IdPrefix(nm) \o "_" \o ReplaceChar(Lower(section_name), " ", "_"),
         character |-> nm,
         chunk_type |-> "section",
         section_name |-> section_name,
         content |-> Strip("# " \o Fmt(nm) \o " - " \o section_name \o "\n\n"
                           \o section_content \o "\n"),
         metadata |-> Metadata(char, {"element", "weapon", "region", "url"})]

\* the loop over char.get('sections', {}).items() (lines 902-920)
section_chunks(char) ==
    LET Chunk(item) ==
            IF item[2] # "" /\ Len(item[2]) > MinBodyLength
            THEN <<section_chunk(char, item[1], item[2])>> ELSE <<>>
    IN  FlatMap(GetOr(char, "sections", <<>>), Chunk, 1)

\* the body of the loop with the meta information appended before the
\* description
char_chunks_MetaFirst(char) ==
    <<basic_info_chunk(char)>> \o meta_info_chunks(char) \o description_chunks(char)
    \o section_chunks(char)

\* the body of the loop of create_smart_chunks (lines 815-920): the chunks
\* appended for one record, in the order of the appends
char_chunks(char) ==
    <<basic_info_chunk(char)>> \o description_chunks(char) \o meta_info_chunks(char)
    \o section_chunks(char)

RECURSIVE create_smart_chunks(_)
\* create_smart_chunks(data): the list returned for a list of records
create_smart_chunks(records) ==
    IF records = <<>> THEN <<>>
    ELSE create_smart_chunks(SubSeq(records, 1, Len(records) - 1))
         \o char_chunks(records[Len(records)])

\* ------------------------------------------------------------------------
\* GenshinDataProcessor.create_chunks (data_processor.py)
\* ------------------------------------------------------------------------

\* the default chunk_size of create_chunks
ChunkSize == 500

\* the chunk create_chunks appends for the text current_chunk
text_chunk(char, current_section, current_chunk) ==
    [character |-> GetOr(char, "name", Str("Unknown")),
     section |-> current_section,
     content |-> Strip(current_chunk),
     metadata |-> Metadata(char, {"element", "weapon", "region", "url"})]

RECURSIVE ParagraphLoop(_, _, _, _, _, _)
\* the loop over paragraphs from the j-th on, and the flush after it: the
\* chunks appended for one record
ParagraphLoop(char, paragraphs, j, current_chunk, current_section, out) ==
    IF j > Len(paragraphs)
    THEN IF Strip(current_chunk) # ""
         THEN Append(out, text_chunk(char, current_section, current_chunk))
         ELSE out
    ELSE LET para == paragraphs[j]
             section == IF StartsWith(para, "## ")
                        THEN Strip(Sub(Lit("## "), <<>>, para, FALSE))
                        ELSE current_section
         IN  IF Len(current_chunk) + Len(para) < ChunkSize
             THEN ParagraphLoop(char, paragraphs, j + 1,
                                current_chunk \o para \o "\n\n", section, out)
             ELSE ParagraphLoop(char, paragraphs, j + 1, para \o "\n\n", section,
                                IF Strip(current_chunk) # ""
                                THEN Append(out, text_chunk(char, section, current_chunk))
                                ELSE out)

\* the body of the loop of create_chunks (lines 262-302)
text_chunks(char) ==
    ParagraphLoop(char, Split(Lit("\n\n"), Fmt(GetOr(char, "full_text", Str(""))), FALSE),
                  1, "", "General", <<>>)

\* ------------------------------------------------------------------------
\* State
\* ------------------------------------------------------------------------

VARIABLES
    text,        \* normalizer: the string handed to clean_text
    cleaned,     \* normalizer: clean_text(text)
    recleaned,   \* normalizer: clean_text(cleaned)
    npc,         \* normalizer: "start", "cleaned", "done" ("idle" elsewhere)
    name,        \* extractors: the character name
    intro,       \* extractors: the introduction text
    applied,     \* extractors: the extractor that has run ("none" before)
    result,      \* extractors: what that extractor returned
    raw,         \* process_character: the raw record handed to it
    outcome,     \* process_character: None before the call, then its outcome
    twin,        \* process_character: the raw record of a second call
    twin_outcome, \* process_character: None, then the outcome of that call
    raw_data,    \* process_all: the list loaded from the input file
    pos,         \* process_all: the index of the record the loop takes next
    processed,   \* process_all: the list processed
    errors,      \* process_all: the list errors of (name, message) pairs
    status,      \* process_all: "running", "returned", "raised" ("idle" elsewhere)
    data,        \* chunkers: the list of processed records handed to them
    ci,          \* create_smart_chunks: the index of the record taken next
    chunks,      \* create_smart_chunks: the list chunks
    spc,         \* create_smart_chunks: "loop", "returned" ("idle" elsewhere)
    oi,          \* create_chunks: the index of the record taken next
    old_chunks,  \* create_chunks: the list chunks
    opc,         \* create_chunks: "loop", "returned" ("idle" elsewhere)
    texts,       \* prepare_texts: the list texts
    metadatas,   \* prepare_texts: the list metadatas
    collection,  \* GenshinVectorStore: the documents of the collection
    ipc,         \* indexing: "prepare", "prepared", "indexed" ("idle" elsewhere)
    rag_info,    \* _create_rag_text: the dict info handed to it
    rag_text     \* _create_rag_text: None before the call, then the text

normVars == <<text, cleaned, recleaned, npc>>
extractVars == <<name, intro, applied, result>>
recordVars == <<raw, outcome, twin, twin_outcome>>
batchVars == <<raw_data, pos, processed, errors, status>>
chunkVars == <<data, ci, chunks, spc, oi, old_chunks, opc>>

indexVars == <<texts, metadatas, collection, ipc>>
ragVars == <<rag_info, rag_text>>

vars == <<normVars, extractVars, recordVars, batchVars, chunkVars, indexVars, ragVars>>

NormIdle == text = "" /\ cleaned = "" /\ recleaned = "" /\ npc = "idle"
ExtractIdle == name = "" /\ intro = "" /\ applied = "idle" /\ result = NoneVal
RecordIdle ==
    raw = NoneVal /\ outcome = NoneVal /\ twin = NoneVal /\ twin_outcome = NoneVal
BatchIdle ==
    raw_data = <<>> /\ pos = 1 /\ processed = <<>> /\ errors = <<>> /\ status = "idle"
ChunkIdle ==
    /\ data = <<>> /\ ci = 1 /\ chunks = <<>> /\ spc = "idle"
    /\ oi = 1 /\ old_chunks = <<>> /\ opc = "idle"
IndexIdle == texts = <<>> /\ metadatas = <<>> /\ collection = <<>> /\ ipc = "idle"
RagIdle == rag_info = NoneVal /\ rag_text = NoneVal

\* ------------------------------------------------------------------------
\* Bounded inputs
\* ------------------------------------------------------------------------

RECURSIVE TextsOver(_, _)
\* the concatenations of at most n tokens of toks
TextsOver(toks, n) ==
    IF n = 0 THEN {""}
    ELSE LET shorter == TextsOver(toks, n - 1)
         IN  shorter \cup {t \o k : t \in shorter, k \in toks}

\* the longest token sequence of a normalizer input
MaxNormTokens == 4

NormTokens == {"[", "]", "1", InfoIcon, " ", ".", "a", "B"}

\* longer texts of the kinds the crawler delivers
NormSamples ==
    {"DilucisaPyrocharacterwhousesClaymore.",
     "AlbedoKreideprinz[edit]", "Version2 [Note 3]", "Version2",
     "QualityWeaponElementModelTypeBonus", "a" \o SoftHyphen \o "b" \o ZeroWidthJoiner,
     "PlayableCharactersDiluc is a characterinGenshinImpact .",
     "[ed[edit]it]", "EnglishX  ChineseY\n\nz !"}

NormInputs == TextsOver(NormTokens, MaxNormTokens) \cup NormSamples

\* ------------------------------------------------------------------------
\* Normalizer: clean_text applied once and then to its own output
\* ------------------------------------------------------------------------

NormInit ==
    /\ text \in NormInputs
    /\ cleaned = ""
    /\ recleaned = ""
    /\ npc = "start"
    /\ ExtractIdle /\ RecordIdle /\ BatchIdle /\ ChunkIdle /\ IndexIdle /\ RagIdle

Clean ==
    /\ npc = "start"
    /\ cleaned' = clean_text(text)
    /\ npc' = "cleaned"
    /\ UNCHANGED <<text, recleaned, extractVars, recordVars, batchVars, chunkVars, indexVars, ragVars>>

CleanAgain ==
    /\ npc = "cleaned"
    /\ recleaned' = clean_text(cleaned)
    /\ npc' = "done"
    /\ UNCHANGED <<text, cleaned, extractVars, recordVars, batchVars, chunkVars, indexVars, ragVars>>

NormNext == Clean \/ CleanAgain

SpecNorm == NormInit /\ [][NormNext]_vars

\* ------------------------------------------------------------------------
\* Claims about the normalizer
\* ------------------------------------------------------------------------

\* C1: clean_text is idempotent: cleaning the output of clean_text again
\* gives the same string, for every input.
C1_Idempotent == npc = "done" => recleaned = cleaned

\* does s hold a marker that clean_text removes: [<digits>], [edit],
\* [Note <digits>], or one of the three special characters
HasRemovedMarker(s) ==
    \/ Search(ReRefMarker, s, FALSE).found
    \/ Search(ReEditMarker, s, FALSE).found
    \/ Search(ReNoteMarker, s, FALSE).found
    \/ Contains(s, InfoIcon)
    \/ Contains(s, ZeroWidthJoiner)
    \/ Contains(s, SoftHyphen)

\* does s hold two adjacent whitespace characters
HasWhitespaceRun(s) ==
    \E i \in 1..(Len(s) - 1) : Char(s, i) \in Whitespace /\ Char(s, i + 1) \in Whitespace

\* C2: the output of clean_text holds none of the removed markers and no
\* run of two or more whitespace characters.
C2_NoMarkersNoRuns ==
    npc \in {"cleaned", "done"} => ~HasRemovedMarker(cleaned) /\ ~HasWhitespaceRun(cleaned)


\* ------------------------------------------------------------------------
\* Extractors: one extractor applied to a name and an introduction
\* ------------------------------------------------------------------------

\* the longest token sequence of an introduction
MaxIntroTokens == 3

ExtractNames ==
    {"", "Zhongli", "Hu Tao", "Tao", "Amber", "Diluc Ragnvindr", "zhongli", "Unknown"}

\* pieces of rarity markers
MarkerTokens == {"5", BlackStar, "-Star", " star", "Quality", "4"}

\* pieces of obtain keywords
ObtainTokens ==
    {"Event ", "Wish", "wishes", " - ", "Lantern Rite", " Featured", "complete",
     "Adventure Rank"}

ExtractSamples ==
    {BlackStar \o BlackStar \o BlackStar \o BlackStar \o BlackStar,
     "Event Wish" \o EmDash \o "Ballad in Goblets Featured in 3 Event Wishes",
     "Chronicled Wishes and Paimon's Bargains",
     "Obtained after the Archon Quest",
     "DilucisaPyrocharacterwhousesClaymore."}

ExtractInputs ==
    (ExtractNames \X TextsOver(MarkerTokens, MaxIntroTokens))
    \cup ({"Amber"} \X (TextsOver(ObtainTokens, MaxIntroTokens) \cup ExtractSamples))

ExtractInit ==
    /\ \E p \in ExtractInputs : name = p[1] /\ intro = p[2]
    /\ applied = "none"
    /\ result = NoneVal
    /\ NormIdle /\ RecordIdle /\ BatchIdle /\ ChunkIdle /\ IndexIdle /\ RagIdle

ExtractRarity ==
    /\ applied = "none"
    /\ applied' = "rarity"
    /\ result' = extract_rarity(name, intro)
    /\ UNCHANGED <<name, intro, normVars, recordVars, batchVars, chunkVars, indexVars, ragVars>>

ExtractHowToObtain ==
    /\ applied = "none"
    /\ applied' = "how_to_obtain"
    /\ result' = extract_how_to_obtain(intro)
    /\ UNCHANGED <<name, intro, normVars, recordVars, batchVars, chunkVars, indexVars, ragVars>>

ExtractNext == ExtractRarity \/ ExtractHowToObtain

SpecExtract == ExtractInit /\ [][ExtractNext]_vars

\* ------------------------------------------------------------------------
\* Claims about the extractors
\* ------------------------------------------------------------------------

\* is the name, or one of its whitespace-separated tokens, a known 5-star name
OnAllowList(n) ==
    \/ n \in FIVE_STAR_CHARS
    \/ \E i, j \in 1..Len(n) :
          /\ i <= j
          /\ SubSeq(n, i, j) \in FIVE_STAR_CHARS
          /\ \A k \in i..j : Char(n, k) \notin Whitespace
          /\ (i = 1 \/ Char(n, i - 1) \in Whitespace)
          /\ (j = Len(n) \/ Char(n, j + 1) \in Whitespace)

\* does s hold w somewhere, letter case ignored
HoldsIgnoringCase(s, w) ==
    \E i \in 1..(Len(s) - Len(w) + 1) : Lower(SubSeq(s, i, i + Len(w) - 1)) = Lower(w)

HasFiveStarMarker(s) ==
    \E w \in {"5" \o BlackStar, "5-Star", "5 Star", "Quality5",
              BlackStar \o BlackStar \o BlackStar \o BlackStar \o BlackStar} :
        HoldsIgnoringCase(s, w)

\* C3: extract_rarity returns 4 or 5 and nothing else; 5 whenever the name or
\* one of its tokens is on the 5-star allow-list, whatever the introduction;
\* otherwise 5 exactly when the introduction holds an explicit 5-star marker
\* (case-insensitively), and 4 in every other case.
C3_Rarity ==
    applied = "rarity" =>
        /\ result \in {4, 5}
        /\ OnAllowList(name) => result = 5
        /\ ~OnAllowList(name) => (result = 5 <=> HasFiveStarMarker(intro))

\* a listed name with an introduction without any marker got rarity 5
C3_Witness ==
    /\ applied = "rarity"
    /\ OnAllowList(name)
    /\ name \notin FIVE_STAR_CHARS
    /\ ~HasFiveStarMarker(intro)
    /\ result = 5

ObtainKeywords ==
    {"wish", "wishes", "event wish", "chronicled wishes", "paimon's bargains",
     "adventure rank", "archon quest", "complete"}

HasObtainKeyword(s) == \E w \in ObtainKeywords : Contains(Lower(s), w)

\* C4: extract_how_to_obtain never returns an empty list, and returns exactly
\* ["Wishes"] when the lowercased introduction holds no obtain keyword.
C4_ObtainNonEmpty ==
    applied = "how_to_obtain" =>
        /\ Len(result) >= 1
        /\ ~HasObtainKeyword(intro) => result = <<"Wishes">>

\* a non-empty introduction without any obtain keyword got the default
C4_Witness ==
    /\ applied = "how_to_obtain"
    /\ intro # ""
    /\ ~HasObtainKeyword(intro)
    /\ result = <<"Wishes">>

\* ------------------------------------------------------------------------
\* process_character applied to one raw record
\* ------------------------------------------------------------------------

\* a key the raw record does not hold
Absent == [t |-> "absent"]

NameOptions == <<Absent, Str("Diluc"), Str("Amber"), Str(""), NoneVal, IntVal(7)>>

IntroOptions ==
    <<Absent, Str(""),
      Str("Diluc is a playable Pyro character in Genshin Impact. "
          \o "He is an on-field DPS of the Knights of Favonius."),
      NoneVal>>

UrlOptions ==
    <<Absent, Str("https://genshin-impact.fandom.com/wiki/Diluc"),
      Str("https://genshin-impact.fandom.com/wiki/Wonderland_Manekin")>>

SectionsOptions ==
    <<Absent, Dict(<<>>),
      Dict(<< <<"Story[edit]", Str(Repeat("He owns the winery. ", 3))>>,
              <<"Notes", Str("short")>>,
              <<"Gallery", Str("")>> >>),
      Dict(<< <<"Official Introduction",
                Str(Repeat("The owner of the Dawn Winery greets every guest. ", 5))>> >>),
      NoneVal,
      Dict(<< <<"Stats", IntVal(90)>> >>)>>

\* the item of a raw record for a key, none when the key is absent
FieldItem(key, value) == IF value.t = "absent" THEN <<>> ELSE << <<key, value>> >>

\* the raw record with the given name, url, introduction and sections
RawOf(n, u, i, s) ==
    Dict(FieldItem("name", n) \o FieldItem("url", u) \o FieldItem("introduction", i)
         \o FieldItem("sections", s))

RecordInit ==
    /\ \E n \in 1..Len(NameOptions), u \in 1..Len(UrlOptions),
          i \in 1..Len(IntroOptions), s \in 1..Len(SectionsOptions) :
          raw = RawOf(NameOptions[n], UrlOptions[u], IntroOptions[i], SectionsOptions[s])
    /\ outcome = NoneVal
    /\ twin = NoneVal /\ twin_outcome = NoneVal
    /\ NormIdle /\ ExtractIdle /\ BatchIdle /\ ChunkIdle /\ IndexIdle /\ RagIdle

\* info = processor.process_character(raw)
ProcessCharacter ==
    /\ outcome = NoneVal
    /\ outcome' = process_character(raw)
    /\ UNCHANGED <<raw, twin, twin_outcome, normVars, extractVars, batchVars, chunkVars, indexVars, ragVars>>

RecordNext == ProcessCharacter

SpecRecord == RecordInit /\ [][RecordNext]_vars

MissingName == ~HasKey(raw.items, "name")
MissingIntro == ~HasKey(raw.items, "introduction")

\* every key the raw record holds has a value of the type of its field: name,
\* url and introduction strings, sections a map of strings
PresentWellTyped ==
    /\ raw.t = "dict"
    /\ \A key \in {"name", "url", "introduction"} :
          HasKey(raw.items, key) => ItemGet(raw.items, key, NoneVal).t = "str"
    /\ HasKey(raw.items, "sections") =>
          LET sections == ItemGet(raw.items, "sections", NoneVal)
          IN  /\ sections.t = "dict"
              /\ \A j \in 1..Len(sections.items) : sections.items[j][2].t = "str"

\* the fields read off the introduction hold what an empty introduction gives
IntroDefaults(info) ==
    /\ info.how_to_obtain = <<"Wishes">>
    /\ info.character_type = Str("Biological")
    /\ info.role_summary = Str("Unknown")
    /\ info.rarity = IntVal(IF OnAllowList(info.name.s) THEN 5 ELSE 4)
    /\ \A key \in {"element", "weapon", "region", "model_type", "title",
                   "constellation", "release_date", "event_wishes_count",
                   "special_dish", "namecard", "real_name"} : info[key] = NoneVal
    /\ info.affiliations = <<>>
    /\ info.voice_actors = <<>>
    /\ "birthday" \notin DOMAIN info
    /\ \A role \in DOMAIN info.roles : ~info.roles[role]

\* C7: process_character never raises on a raw record that lacks 'name'
\* and/or 'introduction' (its other keys well-typed). A missing name becomes
\* "Unknown", a missing introduction the empty string, and the record then
\* holds the defaults: rarity 4 (5 for a name on the allow-list), how_to_obtain
\* ["Wishes"], character_type "Biological", role_summary "Unknown", the other
\* optional fields None or empty.
C7_MissingKeysDefault ==
    (outcome # NoneVal /\ PresentWellTyped /\ (MissingName \/ MissingIntro)) =>
        /\ outcome.t = "return"
        /\ MissingName => outcome.value.name = Str("Unknown")
        /\ MissingIntro => IntroDefaults(outcome.value)
        /\ (MissingName /\ MissingIntro) => outcome.value.rarity = IntVal(4)

\* a record with neither key, and with sections, was processed
C7_Witness ==
    /\ outcome # NoneVal
    /\ outcome.t = "return"
    /\ PresentWellTyped
    /\ MissingName /\ MissingIntro
    /\ HasKey(raw.items, "sections")
    /\ outcome.value.sections # <<>>

\* C7 as stated: extraction proceeds with empty-string defaults for both
\* missing keys, so a record without 'name' gets the name "".
C7_EmptyStringDefaults ==
    (outcome # NoneVal /\ PresentWellTyped /\ (MissingName \/ MissingIntro)) =>
        /\ outcome.t = "return"
        /\ MissingName => outcome.value.name = Str("")
        /\ MissingIntro => IntroDefaults(outcome.value)

\* ------------------------------------------------------------------------
\* process_all: the loop over the list loaded from the input file
\* ------------------------------------------------------------------------

\* the longest input list
MaxBatch == 2

\* the elements json.load can deliver: objects with well-typed, missing and
\* ill-typed fields, and elements that are no objects
BatchRecords ==
    <<RawOf(Str("Diluc"), UrlOptions[2], IntroOptions[3], SectionsOptions[3]),
      RawOf(Absent, Absent, Absent, Absent),
      RawOf(Str("Amber"), Absent, NoneVal, Absent),
      RawOf(Absent, Absent, Str(""), NoneVal),
      RawOf(NoneVal, Absent, Str("Pyro"), Absent),
      NoneVal,
      Str("Diluc")>>

BatchInit ==
    /\ \E n \in 0..MaxBatch :
          \E pick \in [1..n -> 1..Len(BatchRecords)] :
              raw_data = [j \in 1..n |-> BatchRecords[pick[j]]]
    /\ pos = 1
    /\ processed = <<>>
    /\ errors = <<>>
    /\ status = "running"
    /\ NormIdle /\ ExtractIdle /\ RecordIdle /\ ChunkIdle /\ IndexIdle /\ RagIdle

\* the iteration with a handler that records nothing: except Exception: pass
ProcessNext_DropFailed ==
    /\ status = "running"
    /\ pos <= Len(raw_data)
    /\ LET Iteration(processed_char) ==
               /\ processed' = IF processed_char.t = "return"
                               THEN Append(processed, processed_char.value)
                               ELSE processed
               /\ pos' = pos + 1
               /\ UNCHANGED <<errors, status>>
       IN  Iteration(process_character(raw_data[pos]))
    /\ UNCHANGED <<raw_data, normVars, extractVars, recordVars, chunkVars, indexVars, ragVars>>

\* one iteration of "for char in raw_data" (lines 796-803)
ProcessNext ==
    /\ status = "running"
    /\ pos <= Len(raw_data)
    /\ LET char == raw_data[pos]
           Iteration(processed_char) ==
               \/ \* the try block completes
                  /\ processed_char.t = "return"
                  /\ processed' = Append(processed, processed_char.value)
                  /\ pos' = pos + 1
                  /\ UNCHANGED <<errors, status>>
               \/ \* the handler records the failure
                  /\ processed_char.t = "raise"
                  /\ char.t = "dict"
                  /\ errors' = Append(errors,
                                      <<ItemGet(char.items, "name", Str("Unknown")),
                                        processed_char.error>>)
                  /\ pos' = pos + 1
                  /\ UNCHANGED <<processed, status>>
               \/ \* char.get raises inside the handler: process_all raises
                  /\ processed_char.t = "raise"
                  /\ char.t # "dict"
                  /\ status' = "raised"
                  /\ UNCHANGED <<pos, processed, errors>>
       IN  Iteration(process_character(char))
    /\ UNCHANGED <<raw_data, normVars, extractVars, recordVars, chunkVars, indexVars, ragVars>>

\* the loop is over: return processed (lines 805-809)
BatchReturn ==
    /\ status = "running"
    /\ pos > Len(raw_data)
    /\ status' = "returned"
    /\ UNCHANGED <<raw_data, pos, processed, errors,
                   normVars, extractVars, recordVars, chunkVars, indexVars, ragVars>>

BatchNext == ProcessNext \/ BatchReturn

SpecBatch == BatchInit /\ [][BatchNext]_vars

\* C6: an exception raised while processing one element of the input list
\* never aborts process_all: the call does not raise, and when it returns
\* every element has been consumed.
C6_NeverAborts ==
    /\ status # "raised"
    /\ status = "returned" => pos = Len(raw_data) + 1

\* ------------------------------------------------------------------------
\* create_smart_chunks and create_chunks applied to a list of records
\* ------------------------------------------------------------------------

\* the longest list of records
MaxRecords == 2

\* a record with every field set
HuTao ==
    [name |-> Str("Hu Tao"),
     url |-> Str("https://genshin-impact.fandom.com/wiki/Hu_Tao"),
     element |-> Str("Pyro"), weapon |-> Str("Polearm"), rarity |-> IntVal(5),
     region |-> Str("Liyue"), role_summary |-> Str("On-Field / DPS"),
     affiliations |-> <<"Wangsheng Funeral Parlor">>,
     birthday |-> Str("July 15"), release_date |-> Str("March 2, 2021"),
     description |-> Str(Repeat("d", 51)),
     voice_actors |-> << <<"english", "Brianna Knickerbocker">>,
                         <<"chinese", "Tao Dian">> >>,
     special_dish |-> Str("Ghostly March"), namecard |-> Str("Spirit Soother"),
     how_to_obtain |-> <<"Wishes">>,
     sections |-> << <<"Story", Repeat("s", 51)>>, <<"Trivia", Repeat("t", 50)>>,
                     <<"Character Stories", Repeat("c", 60)>> >>,
     full_text |-> Str("# Hu Tao\n\n## About\n" \o Repeat("a", 300)
                       \o "\n\n## Story\n" \o Repeat("b", 250) \o "\n\nend")]

\* the record process_character returns for a raw record without any key
Unnamed ==
    [name |-> Str("Unknown"), url |-> Str(""), element |-> NoneVal,
     weapon |-> NoneVal, rarity |-> IntVal(4), region |-> NoneVal,
     model_type |-> NoneVal, title |-> NoneVal, affiliations |-> <<>>,
     constellation |-> NoneVal,
     roles |-> [on_field |-> FALSE, off_field |-> FALSE, dps |-> FALSE,
                support |-> FALSE, survivability |-> FALSE],
     role_summary |-> Str("Unknown"), how_to_obtain |-> <<"Wishes">>,
     release_date |-> NoneVal, voice_actors |-> <<>>,
     character_type |-> Str("Biological"), event_wishes_count |-> NoneVal,
     special_dish |-> NoneVal, namecard |-> NoneVal, real_name |-> NoneVal,
     description |-> Str(""), sections |-> <<>>,
     full_text |-> Str("# Unknown\n\n## Basic Information\n- Rarity: 4-Star\n"
                       \o "- Character Type: Biological\n\n## Character Roles\n"
                       \o "- Role: Unknown\n\n## How to Obtain\n- Wishes\n")]

\* the records handed to the chunkers: with all, some and none of the
\* fields, with bodies of 40, 50, 51 and more than 800 characters, with
\* blank bodies, and one as process_character returns it (Unnamed)
ChunkRecords ==
    <<HuTao,
      <<>>,
      [name |-> Str("Amber"), description |-> Str(Repeat("d", 40)),
       voice_actors |-> <<>>, special_dish |-> NoneVal, element |-> NoneVal,
       sections |-> <<>>, full_text |-> Str("")],
      [name |-> Str(""), description |-> Str(Repeat("d", 50)),
       special_dish |-> Str("Dish"),
       sections |-> << <<"Lore", Repeat("x", 50)>> >>,
       full_text |-> Str("## Lore\n\n" \o Repeat("x", 50))],
      [name |-> Str("Raiden Shogun"), description |-> Str(Repeat("e", 801)),
       voice_actors |-> << <<"korean", "Park Ji-yoon">> >>,
       sections |-> << <<"Lore", Repeat("z", 900)>> >>,
       full_text |-> Str(Repeat("y", 499) \o "\n\n" \o Repeat("w", 600))],
      [description |-> Str(""), special_dish |-> Str(""), namecard |-> Str("Card"),
       sections |-> << <<"Blank", Repeat(" ", 51)>> >>,
       full_text |-> Str("   \n\n  ")],
      Unnamed,
      [name |-> Str("Kaeya"), description |-> Str(Repeat("k", 60)),
       special_dish |-> Str("Fruity Skewers"),
       sections |-> << <<"Description", Repeat("v", 60)>>, <<"Meta", Repeat("m", 55)>>,
                       <<"Basic", Repeat("b", 52)>> >>,
       full_text |-> Str("# Kaeya")]>>

ChunkInit ==
    /\ \E n \in 0..MaxRecords :
          \E pick \in [1..n -> 1..Len(ChunkRecords)] :
              data = [j \in 1..n |-> ChunkRecords[pick[j]]]
    /\ ci = 1 /\ chunks = <<>> /\ spc = "loop"
    /\ oi = 1 /\ old_chunks = <<>> /\ opc = "loop"
    /\ NormIdle /\ ExtractIdle /\ RecordIdle /\ BatchIdle /\ IndexIdle /\ RagIdle

\* one iteration of "for char in data" of create_smart_chunks (lines 815-920)
SmartChunkNext ==
    /\ spc = "loop"
    /\ ci <= Len(data)
    /\ chunks' = chunks \o char_chunks(data[ci])
    /\ ci' = ci + 1
    /\ UNCHANGED <<data, spc, oi, old_chunks, opc,
                   normVars, extractVars, recordVars, batchVars, indexVars, ragVars>>

\* return chunks (line 924)
SmartChunkReturn ==
    /\ spc = "loop"
    /\ ci > Len(data)
    /\ spc' = "returned"
    /\ UNCHANGED <<data, ci, chunks, oi, old_chunks, opc,
                   normVars, extractVars, recordVars, batchVars, indexVars, ragVars>>

\* one iteration of "for char in data" of create_chunks (lines 262-302)
ChunkNext ==
    /\ opc = "loop"
    /\ oi <= Len(data)
    /\ old_chunks' = old_chunks \o text_chunks(data[oi])
    /\ oi' = oi + 1
    /\ UNCHANGED <<data, ci, chunks, spc, opc,
                   normVars, extractVars, recordVars, batchVars, indexVars, ragVars>>

\* return chunks (create_chunks)
ChunkReturn ==
    /\ opc = "loop"
    /\ oi > Len(data)
    /\ opc' = "returned"
    /\ UNCHANGED <<data, ci, chunks, spc, oi, old_chunks,
                   normVars, extractVars, recordVars, batchVars, indexVars, ragVars>>

ChunkerNext == SmartChunkNext \/ SmartChunkReturn \/ ChunkNext \/ ChunkReturn

SpecChunk == ChunkInit /\ [][ChunkerNext]_vars

\* C5: every chunk emitted by create_smart_chunks, for any list of records
\* (fields missing or empty included), has a content that is not blank.
C5_ContentNotBlank ==
    \A p \in 1..Len(chunks) : Len(Strip(chunks[p].content)) > 0

\* a record without a name whose only section body is blank got its chunks,
\* the section chunk among them
C5_Witness ==
    /\ spc = "returned"
    /\ \E g \in 1..Len(data) :
          /\ "name" \notin DOMAIN data[g]
          /\ "sections" \in DOMAIN data[g]
          /\ \E j \in 1..Len(data[g].sections) : Strip(data[g].sections[j][2]) = ""
    /\ \E p \in 1..Len(chunks) :
          chunks[p].chunk_type = "section" /\ chunks[p].section_name = "Blank"

\* the positions of the basic_info chunks: where the group of a record starts
GroupStarts == {p \in 1..Len(chunks) : chunks[p].chunk_type = "basic_info"}

\* the chunks from the g-th basic_info chunk up to the next one
Group(g) ==
    LET first == CHOOSE p \in GroupStarts :
                     Cardinality({q \in GroupStarts : q < p}) = g - 1
        later == {q \in GroupStarts : q > first}
        last == IF later = {} THEN Len(chunks)
                ELSE (CHOOSE q \in later : \A r \in later : q <= r) - 1
    IN  SubSeq(chunks, first, last)

\* how many chunks of the group have the given type
CountType(group, type) ==
    Cardinality({p \in 1..Len(group) : group[p].chunk_type = type})

\* the section_name of the section chunks of the group, in order
SectionNames(group) ==
    LET IsSection(c) == c.chunk_type = "section"
        NameOf(c) == c.section_name
    IN  MapSeq(FilterSeq(group, IsSection, 1), NameOf)

\* the names of the sections of the record whose body is longer than 50
LongSections(char) ==
    LET IsLong(item) == Len(item[2]) > 50
        NameOf(item) == item[1]
    IN  MapSeq(FilterSeq(GetOr(char, "sections", <<>>), IsLong, 1), NameOf)

\* C8: per record consumed there is exactly one basic_info chunk; a
\* description chunk iff the description is longer than 50 characters; a
\* meta_info chunk iff voice_actors is non-empty or special_dish is present;
\* and one section chunk, carrying section_name, per section whose body is
\* longer than 50 characters.
C8_ChunkKinds ==
    /\ Cardinality(GroupStarts) = ci - 1
    /\ chunks # <<>> => 1 \in GroupStarts
    /\ \A g \in 1..(ci - 1) :
          LET char == data[g]
              group == Group(g)
              description == GetOr(char, "description", NoneVal)
          IN  /\ CountType(group, "basic_info") = 1
              /\ CountType(group, "description") =
                     (IF description.t = "str" /\ Len(description.s) > 50
                      THEN 1 ELSE 0)
              /\ CountType(group, "meta_info") =
                     (IF \/ GetOr(char, "voice_actors", <<>>) # <<>>
                         \/ Truthy(GetOr(char, "special_dish", NoneVal))
                      THEN 1 ELSE 0)
              /\ SectionNames(group) = LongSections(char)
              /\ \A p \in 1..Len(group) :
                    ("section_name" \in DOMAIN group[p])
                        <=> (group[p].chunk_type = "section")

\* a record with a description and a section body of exactly 50 characters
\* and one with both of 51 characters were chunked together
C8_Witness ==
    /\ spc = "returned"
    /\ Len(data) = 2
    /\ GetOr(data[1], "description", NoneVal) = Str(Repeat("d", 50))
    /\ data[2] = HuTao
    /\ CountType(Group(1), "description") = 0
    /\ CountType(Group(2), "description") = 1
    /\ SectionNames(Group(2)) = <<"Story", "Character Stories">>

\* the place of a chunk type in the order of the appends
TypeRank(type) ==
    CASE type = "basic_info" -> 1
      [] type = "description" -> 2
      [] type = "meta_info" -> 3
      [] type = "section" -> 4

\* the index of the section of that name in the section map of the record
SectionIndex(char, section_name) ==
    CHOOSE j \in 1..Len(char.sections) : char.sections[j][1] = section_name

\* C9: the chunk list is the concatenation, in input order, of one group
\* per record, so the chunks of A ++ B are the chunks of A followed by the
\* chunks of B; in a group the order is basic_info, description, meta_info,
\* then the sections in the order of the section map.
C9_OrderPreserved ==
    /\ \A k \in 0..(ci - 1) :
          chunks = create_smart_chunks(SubSeq(data, 1, k))
                   \o create_smart_chunks(SubSeq(data, k + 1, ci - 1))
    /\ \A g \in 1..(ci - 1) :
          LET char == data[g]
              group == Group(g)
          IN  \A p, q \in 1..Len(group) :
                  p < q =>
                      /\ TypeRank(group[p].chunk_type) <= TypeRank(group[q].chunk_type)
                      /\ (group[p].chunk_type = "section") =>
                            SectionIndex(char, group[p].section_name)
                                < SectionIndex(char, group[q].section_name)

\* two records that each give all four kinds of chunk were chunked
C9_Witness ==
    /\ spc = "returned"
    /\ Len(data) = 2
    /\ data[1] = HuTao
    /\ \A g \in 1..2 :
          /\ CountType(Group(g), "description") = 1
          /\ CountType(Group(g), "meta_info") = 1
          /\ CountType(Group(g), "section") >= 1

\* C10: no chunk content is longer than chunk_size, 800 for
\* create_smart_chunks and 500 for create_chunks.
C10_WithinChunkSize ==
    /\ \A p \in 1..Len(chunks) : Len(chunks[p].content) <= SmartChunkSize
    /\ \A p \in 1..Len(old_chunks) : Len(old_chunks[p].content) <= ChunkSize

\* ------------------------------------------------------------------------
\* process_character on two raw records that differ in the introduction only
\* ------------------------------------------------------------------------

\* the name both records hold
TwinName == "Bennett"

\* introductions, among them several that clean_text maps to the same text
TwinIntros ==
    <<"Diluc is a playable Pyro character. He is an on field DPS.",
      "Diluc is a playable Pyro character.  He is an on  field DPS.",
      "Diluc is a playable Py[1]ro character. He is an on field DPS.",
      "A 5 star Claymore user from Mondstadt.",
      "",
      " ">>

\* the sections both records hold
TwinSections ==
    Dict(<< <<"Story[edit]", Str(Repeat("He owns the winery. ", 3))>>,
            <<"Notes [1]", Str("See also [1][2][3][4][5]")>>,
            <<"Gallery", Str("")>>,
            <<"Trivia", Str("Twenty characters ok")>> >>)

TwinRecord(i) ==
    RawOf(Str(TwinName), UrlOptions[2], Str(TwinIntros[i]), TwinSections)

TwinInit ==
    /\ \E i, j \in 1..Len(TwinIntros) :
          /\ raw = TwinRecord(i)
          /\ twin = TwinRecord(j)
    /\ outcome = NoneVal /\ twin_outcome = NoneVal
    /\ NormIdle /\ ExtractIdle /\ BatchIdle /\ ChunkIdle /\ IndexIdle /\ RagIdle

\* info = processor.process_character(twin)
ProcessTwin ==
    /\ twin_outcome = NoneVal
    /\ twin_outcome' = process_character(twin)
    /\ UNCHANGED <<raw, outcome, twin, normVars, extractVars, batchVars, chunkVars, indexVars, ragVars>>

TwinNext == ProcessCharacter \/ ProcessTwin

SpecTwin == TwinInit /\ [][TwinNext]_vars

\* the fields process_character extracts from the introduction
ExtractedFields ==
    {"element", "weapon", "rarity", "region", "model_type", "title",
     "affiliations", "constellation", "roles", "role_summary", "how_to_obtain",
     "release_date", "voice_actors", "character_type", "event_wishes_count",
     "special_dish", "namecard", "real_name"}

\* the record cut down to the extracted fields (and birthday when present)
Extracted(info) ==
    [key \in (ExtractedFields \cup ({"birthday"} \cap DOMAIN info)) |-> info[key]]

IntroOf(record) == ItemGet(record.items, "introduction", Str("")).s

\* C11: two raw records with equal name, url and sections whose
\* introductions have the same clean_text result get the same extracted
\* fields from process_character.
C11_NormalizedIntroDecides ==
    (/\ outcome # NoneVal /\ twin_outcome # NoneVal
     /\ clean_text(IntroOf(raw)) = clean_text(IntroOf(twin))) =>
        /\ outcome.t = "return" /\ twin_outcome.t = "return"
        /\ Extracted(outcome.value) = Extracted(twin_outcome.value)

\* ------------------------------------------------------------------------
\* Normalizer: the glued sample and letters followed by digits
\* ------------------------------------------------------------------------

\* C13: for the introduction "DilucisaPyrocharacterwhousesClaymore."
\* clean_text returns exactly "Diluc is a Pyro character who uses Claymore.".
C13_GluedSample ==
    (npc # "start" /\ text = "DilucisaPyrocharacterwhousesClaymore.") =>
        cleaned = "Diluc is a Pyro character who uses Claymore."

Letters == LowerLetters \cup UpperLetters

\* a letter of s is directly followed by a digit
HasLetterDigit(s) ==
    \E p \in 1..(Len(s) - 1) : Char(s, p) \in Letters /\ Char(s, p + 1) \in Digits

\* C14: clean_text puts a space between a letter and a digit directly after
\* it ("Version2" becomes "Version 2"), so its output never holds a letter
\* directly followed by a digit.
C14_LetterDigitSpaced ==
    npc # "start" =>
        /\ ~HasLetterDigit(cleaned)
        /\ text = "Version2" => cleaned = "Version 2"

\* ------------------------------------------------------------------------
\* Roles: extract_character_roles and then _create_role_summary
\* ------------------------------------------------------------------------

\* the phrases the introductions are put together from
RoleTokens ==
    <<"on-field", "Off Field", "main DPS", "support", "healing", "Healer",
      "on field", "Survivability">>

\* the introduction made of the phrases whose index is in S
RoleIntro(S) ==
    LET Pick(k) == IF k \in S THEN <<RoleTokens[k]>> ELSE <<>>
    IN  Join(" ", Pick(1) \o Pick(2) \o Pick(3) \o Pick(4) \o Pick(5)
                  \o Pick(6) \o Pick(7) \o Pick(8))

RolesInit ==
    /\ \E S \in SUBSET (1..Len(RoleTokens)) : intro = RoleIntro(S)
    /\ name = ""
    /\ applied = "none"
    /\ result = NoneVal
    /\ NormIdle /\ RecordIdle /\ BatchIdle /\ ChunkIdle /\ IndexIdle /\ RagIdle

\* roles = self.extract_character_roles(intro); info['roles'] = roles
ExtractCharacterRoles ==
    /\ applied = "none"
    /\ result' = [roles |-> extract_character_roles(intro)]
    /\ applied' = "roles"
    /\ UNCHANGED <<name, intro, normVars, recordVars, batchVars, chunkVars, indexVars, ragVars>>

\* info['role_summary'] = self._create_role_summary(roles)
CreateRoleSummary ==
    /\ applied = "roles"
    /\ result' = [roles |-> result.roles,
                  role_summary |-> _create_role_summary(result.roles)]
    /\ applied' = "summary"
    /\ UNCHANGED <<name, intro, normVars, recordVars, batchVars, chunkVars, indexVars, ragVars>>

RolesNext == ExtractCharacterRoles \/ CreateRoleSummary

SpecRoles == RolesInit /\ [][RolesNext]_vars

\* the flags and their labels, in the order of the summary
RoleFlags == <<"on_field", "off_field", "dps", "support", "survivability">>
RoleLabels == <<"On-Field", "Off-Field", "DPS", "Support", "Healer/Shielder">>

\* the labels of the true flags, in that order
TrueLabels(roles) ==
    LET Label(k) == IF roles[RoleFlags[k]] THEN <<RoleLabels[k]>> ELSE <<>>
    IN  Label(1) \o Label(2) \o Label(3) \o Label(4) \o Label(5)

\* C15: _create_role_summary returns the labels of the true flags joined by
\* " / " in the order On-Field, Off-Field, DPS, Support, Healer/Shielder, and
\* "Unknown" exactly when no flag is true.
C15_RoleSummary ==
    applied = "summary" =>
        /\ (result.role_summary = "Unknown")
               <=> (\A k \in 1..Len(RoleFlags) : ~result.roles[RoleFlags[k]])
        /\ (\E k \in 1..Len(RoleFlags) : result.roles[RoleFlags[k]]) =>
               result.role_summary = Join(" / ", TrueLabels(result.roles))

\* the summary of a record with support and two flags before it was made
C15_Witness ==
    /\ applied = "summary"
    /\ result.roles.on_field /\ result.roles.dps /\ result.roles.support
    /\ ~result.roles.off_field
    /\ result.role_summary = "On-Field / DPS / Support / Healer/Shielder"

\* the introduction holds none of the phrases of the other three flags
NoOtherRole ==
    \A phrase \in {"on-field", "on field", "off-field", "off field", "dps"} :
        ~Contains(Lower(intro), phrase)

SupportHealer ==
    /\ result.roles = [on_field |-> FALSE, off_field |-> FALSE, dps |-> FALSE,
                       support |-> TRUE, survivability |-> TRUE]
    /\ result.role_summary = "Support / Healer/Shielder"

\* C16: for an introduction that contains "support" and "healing" and, in
\* any letter case, none of "on-field", "on field", "off-field", "off field",
\* "dps", extract_character_roles gives support and survivability only and
\* the role_summary is "Support / Healer/Shielder".
C16_SupportHealing ==
    (/\ applied = "summary"
     /\ Contains(intro, "support") /\ Contains(intro, "healing")
     /\ NoOtherRole) => SupportHealer

C16_Witness ==
    /\ applied = "summary"
    /\ intro = "support healing"
    /\ SupportHealer

\* C16 as stated: only "on-field" is excluded from the introduction.
C16_OnlyOnFieldExcluded ==
    (/\ applied = "summary"
     /\ Contains(intro, "support") /\ Contains(intro, "healing")
     /\ ~Contains(intro, "on-field")) => SupportHealer

\* ------------------------------------------------------------------------
\* extract_clean_description, tier by tier
\* ------------------------------------------------------------------------

DescribeNames == <<"Zhongli", "Venti", "Wonderland Manekin">>

DescribeUrls ==
    <<"https://genshin-impact.fandom.com/wiki/Zhongli",
      "https://genshin-impact.fandom.com/wiki/Miliastra_Wonderland">>

DescribeIntros ==
    <<"",
      "Playable Characters Zhongli is a playable Geo character in Genshin Impact. "
      \o "Zhongli is later revealed to be the Geo Archon Morax of Liyue Harbor. "
      \o "He is a consultant of the Wangsheng Funeral Parlor. "
      \o "The former leader of the adepti still walks the harbor.",
      "Zhongli works for the funeral parlor in Liyue. "
      \o "Zhongli forgets his wallet on most days. "
      \o "Zhongli knows every tale of the harbor. "
      \o "Zhongli is the current vessel of the Geo Archon.",
      "This entry describes a Gameplay Mode of the game. "
      \o "Zhongli is later revealed to be the Geo Archon Morax of Liyue Harbor.",
      "Zhongli is listed as a system character.",
      "Geo. Polearm.",
      "Venti sings in the tavern of Mondstadt every night. "
      \o "He is the current captain of the guard and a knight. "
      \o "Venti plays the lyre for the people of the city. "
      \o "Venti naps.">>

DescribeSections ==
    <<Dict(<<>>),
      Dict(<< <<"Official Introduction",
                Str(Repeat("Zhongli is later revealed to be the Geo Archon Morax. ", 4))>> >>),
      Dict(<< <<"official introduction",
                Str("Zhongli is later revealed to be the Geo Archon Morax of Liyue Harbor.")>>,
              <<"Story", Str(Repeat("He walks the harbor. ", 12))>> >>)>>

DescribeInit ==
    /\ \E n \in 1..Len(DescribeNames), u \in 1..Len(DescribeUrls),
          i \in 1..Len(DescribeIntros), s \in 1..Len(DescribeSections) :
          /\ name = DescribeNames[n]
          /\ intro = DescribeIntros[i]
          /\ raw = RawOf(Str(name), Str(DescribeUrls[u]), Str(intro), DescribeSections[s])
    /\ applied = "none"
    /\ result = NoneVal
    /\ outcome = NoneVal /\ twin = NoneVal /\ twin_outcome = NoneVal
    /\ NormIdle /\ BatchIdle /\ ChunkIdle /\ IndexIdle /\ RagIdle

UrlOf(record) == ItemGet(record.items, "url", Str(""))
SectionsOf(record) == ItemGet(record.items, "sections", Dict(<<>>))

\* sentences = re.split(r'(?<=[.!?])\s+', self._aggressive_spacing_fix(intro))
SentencesOf(txt) == Split(ReSentenceEnd, _aggressive_spacing_fix(txt), FALSE)

\* if self._is_system_character(name, url, intro): return (...)
SystemCharacterReturn ==
    /\ applied = "none"
    /\ _is_system_character(name, UrlOf(raw), intro)
    /\ result' = [description |-> SystemCharacterDescription]
    /\ applied' = "returned"
    /\ UNCHANGED <<name, intro, normVars, recordVars, batchVars, chunkVars, indexVars, ragVars>>

\* official_intro = self._extract_official_intro(sections); the first append
OfficialIntroTier ==
    /\ applied = "none"
    /\ ~_is_system_character(name, UrlOf(raw), intro)
    /\ LET Parts(official_intro) ==
               IF Truthy(official_intro) THEN <<official_intro.s>> ELSE <<>>
       IN  result' = [description_parts |->
                         Parts(_extract_official_intro(SectionsOf(raw)).value)]
    /\ applied' = "official"
    /\ UNCHANGED <<name, intro, normVars, recordVars, batchVars, chunkVars, indexVars, ragVars>>

\* for s in marker_lore: if s not in description_parts: ...append(s)
MarkerLoreTier ==
    /\ applied = "official"
    /\ result' = [description_parts |->
                     AppendNew(result.description_parts,
                               _extract_marker_lore(_aggressive_spacing_fix(intro), name))]
    /\ applied' = "marker"
    /\ UNCHANGED <<name, intro, normVars, recordVars, batchVars, chunkVars, indexVars, ragVars>>

\* for s in role_lore: if s not in description_parts: ...append(s)
RoleRevealTier ==
    /\ applied = "marker"
    /\ result' = [description_parts |->
                     AppendNew(result.description_parts,
                               _extract_role_reveal_lore(SentencesOf(intro)))]
    /\ applied' = "role"
    /\ UNCHANGED <<name, intro, normVars, recordVars, batchVars, chunkVars, indexVars, ragVars>>

\* for s in selected: if s not in description_parts: ...append(s)
ScoredTier ==
    /\ applied = "role"
    /\ result' = [description_parts |->
                     AppendNew(result.description_parts,
                               SelectedSentences(SentencesOf(intro), name))]
    /\ applied' = "scored"
    /\ UNCHANGED <<name, intro, normVars, recordVars, batchVars, chunkVars, indexVars, ragVars>>

\* the join of description_parts[:3] (or the fallback), the cleanup, return
FinalAssembly ==
    /\ applied = "scored"
    /\ result' = [description_parts |-> result.description_parts,
                  description |-> FinalDescription(result.description_parts,
                                                   SentencesOf(intro))]
    /\ applied' = "returned"
    /\ UNCHANGED <<name, intro, normVars, recordVars, batchVars, chunkVars, indexVars, ragVars>>

DescribeNext ==
    \/ SystemCharacterReturn
    \/ OfficialIntroTier
    \/ MarkerLoreTier
    \/ RoleRevealTier
    \/ ScoredTier
    \/ FinalAssembly

SpecDescribe == DescribeInit /\ [][DescribeNext]_vars

\* name, url or introduction mention one of the three phrases, in any case
MentionsSystem ==
    \E phrase \in {"wonderland", "gameplay mode", "system character"} :
        \/ Contains(Lower(name), phrase)
        \/ Contains(Lower(UrlOf(raw).s), phrase)
        \/ Contains(Lower(intro), phrase)

\* C17: when the lowercased name, url and introduction together contain
\* "wonderland", "gameplay mode" or "system character", the description
\* returned is the canned system-character sentence and no tier has added a
\* fragment, whatever the sections and the introduction hold.
C17_SystemShortCircuit ==
    /\ MentionsSystem =>
          /\ applied \in {"none", "returned"}
          /\ applied = "returned" =>
                /\ result.description = SystemCharacterDescription
                /\ "description_parts" \notin DOMAIN result
    /\ (applied = "returned" /\ ~MentionsSystem) =>
          "description_parts" \in DOMAIN result

\* the phrase is in the introduction only, next to a role-reveal sentence,
\* and the record has a long official introduction
C17_Witness ==
    /\ applied = "returned"
    /\ name = "Zhongli"
    /\ UrlOf(raw).s = DescribeUrls[1]
    /\ intro = DescribeIntros[4]
    /\ SectionsOf(raw) = DescribeSections[2]
    /\ result.description = SystemCharacterDescription

NoDuplicates(xs) == \A j, k \in 1..Len(xs) : xs[j] = xs[k] => j = k

IsPrefix(xs, ys) == Len(xs) <= Len(ys) /\ SubSeq(ys, 1, Len(xs)) = xs

\* what tier `position` may have appended: fragments of its own source
TierSource(position) ==
    CASE position = "official" ->
             LET Parts(official_intro) ==
                     IF Truthy(official_intro) THEN {official_intro.s} ELSE {}
             IN  Parts(_extract_official_intro(SectionsOf(raw)).value)
      [] position = "marker" ->
             LET Elements(xs) == {xs[j] : j \in 1..Len(xs)}
             IN  Elements(_extract_marker_lore(_aggressive_spacing_fix(intro), name))
      [] position = "role" ->
             LET Elements(xs) == {xs[j] : j \in 1..Len(xs)}
             IN  Elements(_extract_role_reveal_lore(SentencesOf(intro)))
      [] position = "scored" ->
             LET Elements(xs) == {xs[j] : j \in 1..Len(xs)}
             IN  Elements(SelectedSentences(SentencesOf(intro), name))

\* each tier leaves the fragments already accumulated in place and appends
\* fragments of its own source only, the tiers running in the order official
\* introduction, marker lore, role-reveal lore, scored sentences
TiersAppendInOrder ==
    /\ <<applied, applied'>> \in
          {<<"none", "official">>, <<"official", "marker">>, <<"marker", "role">>,
           <<"role", "scored">>, <<"scored", "returned">>, <<"none", "returned">>}
    /\ (applied \in {"official", "marker", "role", "scored"}) =>
          /\ IsPrefix(result.description_parts, result'.description_parts)
          /\ applied' # "returned" =>
                \A j \in (Len(result.description_parts) + 1)
                            ..Len(result'.description_parts) :
                    result'.description_parts[j] \in TierSource(applied')
          /\ applied' = "returned" =>
                result'.description_parts = result.description_parts

\* the description that the first three fragments give: their join by single
\* spaces, after the final clean_text and whitespace cleanup
JoinOfFirstThree(description_parts) ==
    LET Cleanup(description) ==
            Strip(Sub(Plus(ReS), <<T(" ")>>, clean_text(description), FALSE))
        First3(n) == Cleanup(Join(" ", SubSeq(description_parts, 1, n)))
    IN  First3(IF Len(description_parts) < 3 THEN Len(description_parts) ELSE 3)

\* the accumulator never holds the same string twice, and the description
\* returned is the join of at most its first 3 fragments, cleaned up
DistinctFirstThree ==
    ("description_parts" \in DOMAIN result) =>
        /\ NoDuplicates(result.description_parts)
        /\ (applied = "returned" /\ result.description_parts # <<>>) =>
               result.description = JoinOfFirstThree(result.description_parts)

\* C18: in extract_clean_description the accumulator only grows by
\* appending, in the tier order official introduction, marker lore,
\* role-reveal lore, scored sentences; it never holds the same string twice
\* and no tier removes or reorders an earlier fragment; the description
\* returned is built from at most the first 3 fragments, in append order,
\* joined by single spaces (and then passed through the final cleanup).
C18_Accumulator == []DistinctFirstThree /\ [][TiersAppendInOrder]_vars

\* four fragments from three tiers were accumulated, one sentence having
\* been offered by two tiers, and the description was returned
C18_Witness ==
    /\ applied = "returned"
    /\ "description_parts" \in DOMAIN result
    /\ Len(result.description_parts) > 3
    /\ intro = DescribeIntros[2]
    /\ SectionsOf(raw) = DescribeSections[2]

\* C19: the description of the record process_character returns is the
\* empty string only if the raw record has no text at all (an empty
\* introduction and no sections); a non-empty introduction gives a non-empty
\* description.
C19_DescriptionNonEmpty ==
    (outcome # NoneVal /\ outcome.t = "return") =>
        /\ outcome.value.description = Str("") =>
               (IntroOf(raw) = "" /\ SectionsOf(raw).items = <<>>)
        /\ IntroOf(raw) # "" => outcome.value.description # Str("")

\* the text holds a bracketed annotation: "[", then "]" somewhere after it
HasBracketed(s) ==
    \E p, q \in 1..Len(s) : p < q /\ Char(s, p) = "[" /\ Char(s, q) = "]"

\* C20: in the record process_character returns, each body in 'sections'
\* has length > 20 and each section name has its bracketed annotations
\* removed; no body of length 20 or less is stored.
C20_StoredSections ==
    (outcome # NoneVal /\ outcome.t = "return") =>
        \A j \in 1..Len(outcome.value.sections) :
            /\ Len(outcome.value.sections[j][2]) > 20
            /\ ~HasBracketed(outcome.value.sections[j][1])

\* ------------------------------------------------------------------------
\* create_smart_chunks: the ids and the basic_info lines
\* ------------------------------------------------------------------------

\* lowercased, each space replaced by an underscore
Underscored(s) == ReplaceChar(Lower(s), " ", "_")

\* the suffix the id of a chunk ends with
IdSuffix(chunk) ==
    CASE chunk.chunk_type = "basic_info" -> "basic"
      [] chunk.chunk_type = "description" -> "description"
      [] chunk.chunk_type = "meta_info" -> "meta"
      [] chunk.chunk_type = "section" -> Underscored(chunk.section_name)

\* C21: every chunk id is the character name lowercased with spaces
\* replaced by underscores, then "_" and the suffix: "basic", "description",
\* "meta", or the lowercased, space-to-underscore section name.
C21_ChunkIds ==
    \A p \in 1..Len(chunks) :
        chunks[p].id = Underscored(chunks[p].character.s) \o "_" \o IdSuffix(chunks[p])

\* chunks of all four kinds, of names and a section name with spaces and
\* capitals, were emitted
C21_Witness ==
    /\ spc = "returned"
    /\ \E p, q, r, t \in 1..Len(chunks) :
          /\ chunks[p].id = "hu_tao_character_stories"
          /\ chunks[q].id = "raiden_shogun_meta"
          /\ chunks[r].id = "hu_tao_description"
          /\ chunks[t].id = "raiden_shogun_basic"

\* C28: among the chunks of one character two chunks share an id only if
\* both are section chunks (whose names give the same suffix); the ids of
\* the basic_info, description and meta_info chunks differ from each other
\* and from the id of every section chunk of the character.
C28_IdsDistinctPerCharacter ==
    \A g \in 1..(ci - 1) :
        LET Distinct(group) ==
                \A p, q \in 1..Len(group) :
                    (p < q /\ group[p].id = group[q].id) =>
                        /\ group[p].chunk_type = "section"
                        /\ group[q].chunk_type = "section"
                        /\ Underscored(group[p].section_name)
                               = Underscored(group[q].section_name)
        IN  Distinct(Group(g))

\* C29: for a record as process_character returns it, with element, weapon
\* or region not detected (None), the basic_info chunk shows "Unknown" on
\* the line of that field and its content never holds the text "None".
C29_UnknownPlaceholder ==
    \A g \in 1..(ci - 1) :
        LET Shown(char, basic_info) ==
                \A field \in {"element", "weapon", "region"} :
                    (field \in DOMAIN char /\ char[field] = NoneVal) =>
                        /\ Contains(basic_info.content,
                                    "- " \o Capitalize(field) \o ": Unknown")
                        /\ ~Contains(basic_info.content, "None")
        IN  Shown(data[g], Group(g)[1])

\* ------------------------------------------------------------------------
\* Indexing: GenshinEmbedder.prepare_texts and GenshinVectorStore.add_documents
\* ------------------------------------------------------------------------

\* the size of one collection.add call
BatchSize == 100

\* the text of one chunk (embedder.py lines 67-75)
chunk_text(chunk) ==
    LET character == GetOr(chunk, "character", Str("Unknown"))
        section == GetOr(chunk, "section", "")
        content == GetOr(chunk, "content", "")
    IN  IF content # "" THEN "Character: " \o Fmt(character) \o "\n" \o content
        ELSE "Character: " \o Fmt(character) \o "\n" \o section

\* the metadata of the chunk at index i, counted from 0 (lines 80-83)
chunk_metadata(chunk, i) ==
    LET character == GetOr(chunk, "character", Str("Unknown"))
        section == GetOr(chunk, "section", "")
        metadata == GetOr(chunk, "metadata", <<>>)
    IN  [k \in DOMAIN metadata \cup {"character", "section", "chunk_id"} |->
            CASE k = "character" -> character
              [] k = "section" -> Str(section)
              [] k = "chunk_id" -> IntVal(i)
              [] OTHER -> metadata[k]]

\* ids = [f"doc_{i}" for i in range(n_docs)] (chroma_store.py lines 86-87)
RECURSIVE doc_ids(_)
doc_ids(n_docs) ==
    IF n_docs = 0 THEN <<>>
    ELSE Append(doc_ids(n_docs - 1), "doc_" \o IntToStr(n_docs - 1))

Min2(a, b) == IF a < b THEN a ELSE b

\* the loop of collection.add calls from offset i on (lines 95-104); every
\* call made here adds ids the collection does not hold
RECURSIVE add_batches(_, _, _, _, _)
add_batches(coll, ids, documents, metas, i) ==
    IF i >= Len(documents) THEN coll
    ELSE LET end_idx == Min2(i + BatchSize, Len(documents))
             batch == [j \in 1..(end_idx - i) |->
                          [id |-> ids[i + j], document |-> documents[i + j],
                           metadata |-> metas[i + j]]]
         IN  add_batches(coll \o batch, ids, documents, metas, end_idx)

\* the chunks file holds what create_smart_chunks returned for some records
IndexInit ==
    /\ \E n \in 0..MaxRecords :
          \E pick \in [1..n -> 1..Len(ChunkRecords)] :
              data = [j \in 1..n |-> ChunkRecords[pick[j]]]
    /\ chunks = create_smart_chunks(data)
    /\ ci = Len(data) + 1 /\ spc = "returned"
    /\ oi = 1 /\ old_chunks = <<>> /\ opc = "idle"
    /\ texts = <<>> /\ metadatas = <<>> /\ collection = <<>> /\ ipc = "prepare"
    /\ NormIdle /\ ExtractIdle /\ RecordIdle /\ BatchIdle /\ RagIdle

\* one iteration of "for i, chunk in enumerate(chunks)" (embedder.py
\* lines 65-85); the metadata dict of the chunk itself takes the three keys
PrepareNext ==
    /\ ipc = "prepare"
    /\ Len(texts) < Len(chunks)
    /\ LET i == Len(texts)
           Step(chunk, metadata) ==
               /\ texts' = Append(texts, chunk_text(chunk))
               /\ metadatas' = Append(metadatas, metadata)
               /\ chunks' = [chunks EXCEPT ![i + 1] =
                                [k \in DOMAIN chunk \cup {"metadata"} |->
                                    IF k = "metadata" THEN metadata ELSE chunk[k]]]
       IN  Step(chunks[i + 1], chunk_metadata(chunks[i + 1], i))
    /\ UNCHANGED <<data, ci, spc, oi, old_chunks, opc, collection, ipc,
                   normVars, extractVars, recordVars, batchVars, ragVars>>

\* return texts, metadatas (line 87)
PrepareReturn ==
    /\ ipc = "prepare"
    /\ Len(texts) = Len(chunks)
    /\ ipc' = "prepared"
    /\ UNCHANGED <<texts, metadatas, collection, chunkVars,
                   normVars, extractVars, recordVars, batchVars, ragVars>>

\* add_documents(texts, embeddings, metadatas), called without ids
\* (chroma_store.py lines 67-109, called at line 219 and scripts/test.py 42)
AddDocuments ==
    /\ ipc = "prepared"
    /\ collection' = add_batches(collection, doc_ids(Len(texts)), texts, metadatas, 0)
    /\ ipc' = "indexed"
    /\ UNCHANGED <<texts, metadatas, chunkVars,
                   normVars, extractVars, recordVars, batchVars, ragVars>>

IndexNext == PrepareNext \/ PrepareReturn \/ AddDocuments

SpecIndex == IndexInit /\ [][IndexNext]_vars

\* the index in chunks of the chunk a stored document was made from
SourceOf(doc) == doc.metadata["chunk_id"].n + 1

\* the positions of the chunks that carry the id of the chunk at p
SameId(p) == {q \in 1..Len(chunks) : chunks[q].id = chunks[p].id}

\* C22: the chunk ids are the keys of the store with last-write-wins: when
\* chunks share an id, after indexing the store holds a single document for
\* that id, the one made from the chunk written last.
C22_LastWriteWins ==
    ipc = "indexed" =>
        \A p \in 1..Len(chunks) :
            LET Single(same) ==
                    \E d \in 1..Len(collection) :
                        /\ SourceOf(collection[d]) = CHOOSE q \in same : \A r \in same : r <= q
                        /\ \A e \in 1..Len(collection) :
                               SourceOf(collection[e]) \in same => e = d
            IN  Single(SameId(p))

\* C30: for every section chunk the metadata entry of prepare_texts at the
\* same index (chunk_id = index) records the section name under "section"
\* as a non-empty string, and texts and metadatas are as long as the chunks.
C30_SectionTagSurvives ==
    ipc \in {"prepared", "indexed"} =>
        /\ Len(texts) = Len(chunks)
        /\ Len(metadatas) = Len(chunks)
        /\ \A p \in 1..Len(chunks) :
               chunks[p].chunk_type = "section" =>
                   /\ metadatas[p]["chunk_id"] = IntVal(p - 1)
                   /\ metadatas[p]["section"] = Str(chunks[p].section_name)
                   /\ metadatas[p]["section"] # Str("")

\* ------------------------------------------------------------------------
\* _create_rag_text on the records process_character builds
\* ------------------------------------------------------------------------

\* the choices that make one dict info: optional fields absent or present,
\* the sentence of the introduction the event-wish fields are extracted from
RagChoices ==
    [title : {NoneVal, Str("Darknight Hero")},
     real_name : {NoneVal, Str("Diluc"), Str("Diluc Ragnvindr")},
     wishes : {"", "He was featured in 0 Event Wishes.",
               "He was featured in 3 Event Wishes."},
     release_date : {NoneVal, Str("September 28, 2020")},
     voice_actors : {<<>>, << <<"english", "Sean Chiplock">> >>},
     special_dish : {NoneVal, Str("Once Upon a Time in Mondstadt")},
     namecard : {NoneVal, Str("Diluc: Flames")},
     description : {Str(""), Str("Diluc is the owner of the Dawn Winery.")},
     sections : {<<>>,
                 << <<"Profile", Repeat("p", 25)>> >>,
                 << <<"Trivia", Repeat("t", 40)>>, <<"Story", Repeat("s", 40)>>,
                    <<"Personality", Repeat("q", 31)>> >>}]

\* the dict info of process_character (lines 566-632) for one choice, without
\* the key roles, which _create_rag_text never reads
RagInfo(c) ==
    [name |-> Str("Diluc"),
     url |-> Str(""),
     element |-> Str("Pyro"),
     weapon |-> Str("Claymore"),
     rarity |-> IntVal(5),
     region |-> Str("Mondstadt"),
     model_type |-> NoneVal,
     title |-> c.title,
     affiliations |-> <<"Dawn Winery">>,
     constellation |-> NoneVal,
     role_summary |-> Str("On-Field / DPS"),
     how_to_obtain |-> extract_how_to_obtain(c.wishes),
     release_date |-> c.release_date,
     voice_actors |-> c.voice_actors,
     character_type |-> Str("Biological"),
     event_wishes_count |-> extract_event_wishes(c.wishes),
     special_dish |-> c.special_dish,
     namecard |-> c.namecard,
     real_name |-> c.real_name,
     description |-> c.description,
     sections |-> c.sections]

RagInit ==
    /\ \E c \in RagChoices : rag_info = RagInfo(c)
    /\ rag_text = NoneVal
    /\ NormIdle /\ ExtractIdle /\ RecordIdle /\ BatchIdle /\ ChunkIdle /\ IndexIdle

\* info['full_text'] = self._create_rag_text(info) (line 635)
CreateRagText ==
    /\ rag_text = NoneVal
    /\ rag_text' = Str(_create_rag_text(rag_info))
    /\ UNCHANGED <<rag_info, normVars, extractVars, recordVars, batchVars,
                   chunkVars, indexVars>>

RagNext == CreateRagText

SpecRag == RagInit /\ [][RagNext]_vars

RECURSIVE LinesFrom(_, _)
\* the lines of s from position i on, split at every "\n"
LinesFrom(s, i) ==
    IF i > Len(s) THEN <<"">>
    ELSE LET ends == {j \in i..Len(s) : Char(s, j) = "\n"}
             Cut(e) == <<SubSeq(s, i, e - 1)>> \o LinesFrom(s, e + 1)
         IN  IF ends = {} THEN <<SubSeq(s, i, Len(s))>>
             ELSE Cut(CHOOSE e \in ends : \A j \in ends : e <= j)

\* the lines that open a block, in the order of the text
Headings(lines) ==
    LET IsHeading(line) == StartsWith(line, "## ")
    IN  FilterSeq(lines, IsHeading, 1)

\* xs can be had from ys by leaving elements out
RECURSIVE IsSubsequence(_, _)
IsSubsequence(xs, ys) ==
    IF xs = <<>> THEN TRUE
    ELSE IF ys = <<>> THEN FALSE
    ELSE IF xs[1] = ys[1] THEN IsSubsequence(Tail(xs), Tail(ys))
    ELSE IsSubsequence(xs, Tail(ys))

\* the headings of the fixed blocks whose field is present, in claimed order
FixedHeadings(info) ==
    <<"## Basic Information">>
    \o (IF Truthy(info.role_summary) THEN <<"## Character Roles">> ELSE <<>>)
    \o (IF info.how_to_obtain # <<>> THEN <<"## How to Obtain">> ELSE <<>>)
    \o (IF Truthy(info.release_date) THEN <<"## Release Date">> ELSE <<>>)
    \o (IF info.voice_actors # <<>> THEN <<"## Voice Actors">> ELSE <<>>)
    \o (IF Truthy(info.special_dish) THEN <<"## Special Dish">> ELSE <<>>)
    \o (IF Truthy(info.namecard) THEN <<"## Namecard">> ELSE <<>>)
    \o (IF Truthy(info.description) THEN <<"## About">> ELSE <<>>)

\* the lines of the header block
HeaderLines(info) ==
    <<"# " \o info.name.s>>
    \o (IF Truthy(info.title) THEN <<"Also known as: " \o info.title.s>> ELSE <<>>)
    \o (IF Truthy(info.real_name) /\ info.real_name # info.name
        THEN <<"Real name: " \o info.real_name.s>> ELSE <<>>)

\* C23: in full_text the blocks come in this order, each only when its field
\* is present: the header "# <name>" (with "Also known as" and, only when
\* real_name differs from name, "Real name"), Basic Information, Character
\* Roles, How to Obtain, Release Date, Voice Actors, Special Dish, Namecard,
\* About, then sections in their order; exactly one blank line lies between
\* consecutive blocks.
C23_BlockOrder ==
    rag_text # NoneVal =>
        LET Ordered(info, lines, fixed) ==
                /\ SubSeq(lines, 1, Len(HeaderLines(info)) + 1)
                       = HeaderLines(info) \o <<"">>
                /\ Len(Headings(lines)) >= Len(fixed)
                /\ SubSeq(Headings(lines), 1, Len(fixed)) = fixed
                /\ LET SectionHeading(item) == "## " \o item[1]
                   IN  IsSubsequence(
                           SubSeq(Headings(lines), Len(fixed) + 1, Len(Headings(lines))),
                           MapSeq(info.sections, SectionHeading))
                /\ \A i \in 1..Len(lines) :
                       /\ StartsWith(lines[i], "## ") =>
                              i >= 3 /\ lines[i - 1] = "" /\ lines[i - 2] # ""
                       /\ lines[i] = "" =>
                              i = Len(lines) \/ StartsWith(lines[i + 1], "## ")
        IN  Ordered(rag_info, LinesFrom(rag_text.s, 1), FixedHeadings(rag_info))

\* a text with every optional block, both extra header lines and two sections
C23_Witness ==
    /\ rag_text # NoneVal
    /\ Truthy(rag_info.title) /\ Truthy(rag_info.real_name)
    /\ rag_info.real_name # rag_info.name
    /\ Len(FixedHeadings(rag_info)) = 8
    /\ Len(Headings(LinesFrom(rag_text.s, 1))) = 10

\* C24: whenever event_wishes_count is present (an extracted integer N, 0
\* included) the How to Obtain block holds the line "- Featured in N Event
\* Wishes"; when the count is absent the text holds no such line.
C24_FeaturedLine ==
    rag_text # NoneVal =>
        LET Featured(count, lines) ==
                IF count = NoneVal
                THEN \A i \in 1..Len(lines) : ~StartsWith(lines[i], "- Featured in ")
                ELSE \E i \in 1..Len(lines) :
                        lines[i] = "- Featured in " \o IntToStr(count.n) \o " Event Wishes"
        IN  Featured(rag_info.event_wishes_count, LinesFrom(rag_text.s, 1))

\* ------------------------------------------------------------------------
\* The candidate-list extractors applied to an introduction
\* ------------------------------------------------------------------------

\* the longest token sequence of an introduction of this part
MaxFieldTokens == 3

\* pieces that name elements, weapons, regions and affiliations
FieldTokens ==
    {"Hydro ", "pyro ", "Claymore ", "sword ", "Liyue ", "the Knights of Favonius ",
     "Eleven Fatui Harbingers "}

FieldsInit ==
    /\ name = "Diluc"
    /\ intro \in TextsOver(FieldTokens, MaxFieldTokens)
                    \cup {"DilucisaPyrocharacterwhousesClaymore."}
    /\ applied = "none"
    /\ result = NoneVal
    /\ NormIdle /\ RecordIdle /\ BatchIdle /\ ChunkIdle /\ IndexIdle /\ RagIdle

\* the option lists of process_character (lines 569-577)
FieldOptions ==
    [element |-> ElementOptions, weapon |-> WeaponOptions, region |-> RegionOptions]

\* 'element', 'weapon', 'region': self._extract_field(intro, [...])
ExtractField ==
    /\ applied = "none"
    /\ \E field \in DOMAIN FieldOptions :
          /\ applied' = field
          /\ result' = _extract_field(intro, FieldOptions[field])
    /\ UNCHANGED <<name, intro, normVars, recordVars, batchVars, chunkVars, indexVars, ragVars>>

\* 'affiliations': self.extract_affiliation(intro)
ExtractAffiliation ==
    /\ applied = "none"
    /\ applied' = "affiliations"
    /\ result' = extract_affiliation(intro)
    /\ UNCHANGED <<name, intro, normVars, recordVars, batchVars, chunkVars, indexVars, ragVars>>

FieldsNext == ExtractField \/ ExtractAffiliation

SpecFields == FieldsInit /\ [][FieldsNext]_vars

\* ------------------------------------------------------------------------
\* Claims about the field extractors
\* ------------------------------------------------------------------------

\* C25: for element, weapon and region the extractor returns the first
\* candidate in candidate-list order (not the first in the text) whose
\* lowercase form is in the lowercased introduction, and None when no
\* candidate is; extract_affiliation returns all such candidates, each once,
\* in candidate-list order.  For "DilucisaPyrocharacterwhousesClaymore." the
\* element is "Pyro" and the weapon "Claymore".
C25_CandidateOrder ==
    LET Matches(candidate) == Contains(Lower(intro), Lower(candidate))
        FirstOf(options) ==
            /\ (result = NoneVal) <=> (\A j \in 1..Len(options) : ~Matches(options[j]))
            /\ result # NoneVal =>
                   \E j \in 1..Len(options) :
                       /\ result = Str(options[j])
                       /\ Matches(options[j])
                       /\ \A k \in 1..(j - 1) : ~Matches(options[k])
        AllOf(keywords) ==
            /\ \A j \in 1..Len(keywords) :
                   Cardinality({i \in 1..Len(result) : result[i] = keywords[j]})
                       = IF Matches(keywords[j]) THEN 1 ELSE 0
            /\ \A i \in 1..Len(result) : \E j \in 1..Len(keywords) : result[i] = keywords[j]
            /\ \A i, k \in 1..Len(result) :
                   i < k => \E a, b \in 1..Len(keywords) :
                                a < b /\ result[i] = keywords[a] /\ result[k] = keywords[b]
    IN  /\ applied \in DOMAIN FieldOptions => FirstOf(FieldOptions[applied])
        /\ applied = "affiliations" => AllOf(affiliation_keywords)
        /\ intro = "DilucisaPyrocharacterwhousesClaymore." =>
               /\ applied = "element" => result = Str("Pyro")
               /\ applied = "weapon" => result = Str("Claymore")

\* an introduction that names Hydro before Pyro gave the element Pyro
C25_Witness ==
    /\ applied = "element"
    /\ intro = "Hydro pyro Claymore "
    /\ result = Str("Pyro")

\* ------------------------------------------------------------------------
\* Claims about the scored tier
\* ------------------------------------------------------------------------

\* what the scored tier may append to the fragments before, giving after
ScoredTierAppends(before, after) ==
    LET stripped == MapSeq(SentencesOf(intro), Strip)
        FirstAt(x) == CHOOSE j \in 1..Len(stripped) :
                          stripped[j] = x /\ \A k \in 1..(j - 1) : stripped[k] # x
        Eligible(x) == 30 <= Len(x) /\ Len(x) <= 400 /\ _score_sentence(x, name) >= 4
        Added(new) ==
            /\ Len(new) <= 3
            /\ \A i \in 1..Len(new) :
                   /\ \E j \in 1..Len(stripped) : stripped[j] = new[i]
                   /\ 30 <= Len(new[i]) /\ Len(new[i]) <= 400
                   /\ _score_sentence(new[i], name) >= 4
            /\ \A i, k \in 1..Len(new) :
                   i < k =>
                       \/ _score_sentence(new[i], name) > _score_sentence(new[k], name)
                       \/ /\ _score_sentence(new[i], name) = _score_sentence(new[k], name)
                          /\ FirstAt(new[i]) < FirstAt(new[k])
            \* an eligible sentence left out scores no more than one taken
            /\ \A j \in 1..Len(stripped) :
                   (Eligible(stripped[j]) /\ \A i \in 1..Len(after) : after[i] # stripped[j])
                       => \A i \in 1..Len(new) :
                              _score_sentence(stripped[j], name)
                                  <= _score_sentence(new[i], name)
    IN  /\ IsPrefix(before, after)
        /\ Added(SubSeq(after, Len(before) + 1, Len(after)))

\* C26: the scored tier of extract_clean_description takes only sentences of
\* stripped length 30 to 400 and adds at most 3 of them, each scoring at
\* least 4, in non-increasing score order, equal scores in the order of the
\* introduction; it never adds a sentence that scores below 4.
C26_ScoredTier ==
    [][(applied = "role" /\ applied' = "scored")
          => ScoredTierAppends(result.description_parts, result'.description_parts)]_vars

\* the tier added three sentences, the second of the introduction first and
\* the two of equal score behind it in their order; the short one is left out
C26_Witness ==
    /\ applied = "scored"
    /\ name = "Venti"
    /\ result.description_parts
           = <<"He is the current captain of the guard and a knight.",
               "Venti sings in the tavern of Mondstadt every night.",
               "Venti plays the lyre for the people of the city.">>

\* ------------------------------------------------------------------------
\* Claims about the accounting of process_all
\* ------------------------------------------------------------------------

\* the outcomes of process_character for the first k input records
OutcomesOf(k) == [j \in 1..k |-> process_character(raw_data[j])]

\* C27: after every iteration of the loop of process_all the records consumed
\* so far are accounted for exactly once: len(processed) + len(errors) is the
\* number of records consumed, errors holds the name and the message of each
\* failed record, processed holds the records that succeeded, in input
\* order; at the end the two counts sum to the length of the input.
C27_Accounting ==
    LET Succeeded(o) == o.t = "return"
        Failed(o) == o.t = "raise"
        ValueOf(o) == o.value
        Accounted(k, outcomes) ==
            /\ processed = MapSeq(FilterSeq(outcomes, Succeeded, 1), ValueOf)
            /\ Len(errors) = Len(FilterSeq(outcomes, Failed, 1))
            /\ \A j \in 1..k :
                   Failed(outcomes[j]) =>
                       LET e == Cardinality({i \in 1..j : Failed(outcomes[i])})
                       IN  errors[e] = <<ItemGet(raw_data[j].items, "name", Str("Unknown")),
                                         outcomes[j].error>>
    IN  /\ Len(processed) + Len(errors) = pos - 1
        /\ Accounted(pos - 1, OutcomesOf(pos - 1))
        /\ status = "returned" => Len(processed) + Len(errors) = Len(raw_data)

\* a run over two records ended with one processed and, for the record
\* named Amber whose introduction is None, one entry in errors
C27_Witness ==
    /\ status = "returned"
    /\ Len(raw_data) = 2
    /\ Len(processed) = 1
    /\ errors = << <<Str("Amber"), "'NoneType' object has no attribute 'lower'">> >>

====
